---- MODULE Spec2Model ----
(***************************************************************************)
(* Credential / MFA policy engine of the defence portal.                   *)
(*                                                                         *)
(*   server  : the /api/auth routes (register, login, verify-mfa,          *)
(*             send-verification, verify-email, resend-verification) over  *)
(*             the User collection, with the TTL monitor of the collection *)
(*   client  : the login wizard (LoginForm) and the useEmailOtp hook       *)
(*                                                                         *)
(* Strings are sequences of one-character strings so that trimming, case   *)
(* folding and the regular expressions of the source are computed.         *)
(* Time is counted in minutes on the server and in seconds (timer ticks)   *)
(* in the client.                                                          *)
(***************************************************************************)
EXTENDS Integers, Sequences, FiniteSets, TLC

(***************************************************************************)
(* Strings                                                                 *)
(***************************************************************************)
LowerChars == <<"a","b","c","d","e","f","g","h","i","j","k","l","m",
                "n","o","p","q","r","s","t","u","v","w","x","y","z">>

UpperChars == <<"A","B","C","D","E","F","G","H","I","J","K","L","M",
                "N","O","P","Q","R","S","T","U","V","W","X","Y","Z">>

DigitChars == {"0","1","2","3","4","5","6","7","8","9"}

Range(s) == { s[i] : i \in 1..Len(s) }

IsLower(c) == c \in Range(LowerChars)

IsUpper(c) == c \in Range(UpperChars)

IsDigit(c) == c \in DigitChars

IsAlnum(c) == IsLower(c) \/ IsUpper(c) \/ IsDigit(c)

IsSpace(c) == c \in {" ", "\t", "\n"}

\* String.prototype.toUpperCase / toLowerCase, character by character
UpperOf(c) == IF IsLower(c) THEN UpperChars[CHOOSE k \in 1..26 : LowerChars[k] = c] ELSE c

LowerOf(c) == IF IsUpper(c) THEN LowerChars[CHOOSE k \in 1..26 : UpperChars[k] = c] ELSE c

toUpperCase(s) == [ i \in 1..Len(s) |-> UpperOf(s[i]) ]

toLowerCase(s) == [ i \in 1..Len(s) |-> LowerOf(s[i]) ]

\* String.prototype.trim
RECURSIVE TrimLeft(_)
TrimLeft(s) == IF s # <<>> /\ IsSpace(Head(s)) THEN TrimLeft(Tail(s)) ELSE s

RECURSIVE TrimRight(_)
TrimRight(s) ==
    IF s # <<>> /\ IsSpace(s[Len(s)]) THEN TrimRight(SubSeq(s, 1, Len(s) - 1)) ELSE s

trim(s) == TrimRight(TrimLeft(s))

\* position of the first occurrence of c in s, 0 when absent (indexOf + 1)
IndexOf(s, c) ==
    IF c \in Range(s) THEN CHOOSE i \in 1..Len(s) : s[i] = c /\ \A j \in 1..(i - 1) : s[j] # c
    ELSE 0

LastIndexOf(s, c) ==
    IF c \in Range(s) THEN CHOOSE i \in 1..Len(s) : s[i] = c /\ \A j \in (i + 1)..Len(s) : s[j] # c
    ELSE 0

Count(s, c) == Cardinality({ i \in 1..Len(s) : s[i] = c })

\* validator.escape: the HTML-significant characters become entities (the
\* double quote, the backslash and the backquote, which no input here carries,
\* are left out)
EscapeChar(c) ==
    CASE c = "&"  -> <<"&","a","m","p",";">>
      [] c = "<"  -> <<"&","l","t",";">>
      [] c = ">"  -> <<"&","g","t",";">>
      [] c = "'"  -> <<"&","#","x","2","7",";">>
      [] c = "/"  -> <<"&","#","x","2","F",";">>
      [] OTHER    -> <<c>>

RECURSIVE escape(_)
escape(s) == IF s = <<>> THEN <<>> ELSE EscapeChar(Head(s)) \o escape(Tail(s))

(***************************************************************************)
(* Patterns of the source                                                  *)
(***************************************************************************)
LocalPart(s) == SubSeq(s, 1, LastIndexOf(s, "@") - 1)

DomainPart(s) == SubSeq(s, LastIndexOf(s, "@") + 1, Len(s))

\* [a-z0-9._%+-] , case-insensitive where the pattern carries /i
IsEmailLocalChar(c) == IsLower(c) \/ IsDigit(c) \/ c \in {".", "_", "%", "+", "-"}

IsDomainChar(c) == IsLower(c) \/ IsDigit(c) \/ c \in {".", "-"}

\* the text after the last "." of d is [a-z]{2,} and something precedes the "."
HasTld(d) ==
    LET dot == LastIndexOf(d, ".")
    IN  /\ dot > 1
        /\ Len(d) - dot >= 2
        /\ \A i \in (dot + 1)..Len(d) : IsLower(d[i])

\* /^[a-z0-9._%+-]+@[a-z0-9.-]+\.[a-z]{2,}$/  (officialEmail.match of the schema)
SchemaEmailMatch(s) ==
    /\ Count(s, "@") = 1
    /\ LocalPart(s) # <<>>
    /\ \A i \in 1..Len(LocalPart(s)) : IsEmailLocalChar(LocalPart(s)[i])
    /\ \A i \in 1..Len(DomainPart(s)) : IsDomainChar(DomainPart(s)[i])
    /\ HasTld(DomainPart(s))

\* validator.isEmail: local@domain with a fully qualified domain name
isEmail(s) ==
    /\ SchemaEmailMatch(toLowerCase(s))
    /\ Head(DomainPart(s)) # "."
    /\ \A i \in 1..(Len(DomainPart(s)) - 1) :
          ~(DomainPart(s)[i] = "." /\ DomainPart(s)[i + 1] = ".")

GmailDomain == <<"g","m","a","i","l",".","c","o","m">>

\* validator.normalizeEmail: lower case; for gmail.com the dots of the local
\* part and a "+tag" suffix are dropped
RECURSIVE DropDots(_)
DropDots(s) ==
    IF s = <<>> THEN <<>>
    ELSE IF Head(s) = "." THEN DropDots(Tail(s))
    ELSE <<Head(s)>> \o DropDots(Tail(s))

normalizeEmail(s) ==
    LET l == toLowerCase(LocalPart(s))
        d == toLowerCase(DomainPart(s))
        cut == IF IndexOf(l, "+") > 0 THEN SubSeq(l, 1, IndexOf(l, "+") - 1) ELSE l
    IN  IF d = GmailDomain THEN DropDots(cut) \o <<"@">> \o d
        ELSE l \o <<"@">> \o d

DefenceOrgs ==
    { <<"a","r","m","y">>, <<"n","a","v","y">>,
      <<"a","i","r","f","o","r","c","e">>, <<"d","r","d","o">> }

DefenceKinds == { <<"m","i","l">>, <<"g","o","v">> }

\* /^[a-z0-9._%+-]+@(?:army|navy|airforce|drdo)\.(?:mil|gov)\.in$/i
defenceEmailPattern(s) ==
    LET t == toLowerCase(s)
    IN  /\ Count(t, "@") = 1
        /\ LocalPart(t) # <<>>
        /\ \A i \in 1..Len(LocalPart(t)) : IsEmailLocalChar(LocalPart(t)[i])
        /\ DomainPart(t) \in
             { o \o <<".">> \o k \o <<".","i","n">> : o \in DefenceOrgs, k \in DefenceKinds }

\* password strength rule of validateRegistration
HasUpper(s) == \E i \in 1..Len(s) : IsUpper(s[i])

HasDigit(s) == \E i \in 1..Len(s) : IsDigit(s[i])

HasSymbol(s) == \E i \in 1..Len(s) : ~IsAlnum(s[i])

MinPasswordLength == 12

PasswordStrong(s) ==
    /\ Len(s) >= MinPasswordLength
    /\ HasUpper(s)
    /\ HasDigit(s)
    /\ HasSymbol(s)

\* bcrypt.hash / bcrypt.compare: the hash determines the password
Hash(pw) == <<"$2a$10$">> \o pw

Compare(pw, h) == h = Hash(pw)

(***************************************************************************)
(* Bounds of the model and constants of the program                        *)
(***************************************************************************)
\* bounds
MaxTime == 16

MaxUsers == 2

MaxTokens == 3

MaxFailStreak == 4

\* constants of the program
EmailVerificationExpiry == 15

SendRateLimit == 5

ResendRateLimit == 2

MinLoginIdentifier == 3

MinLoginPassword == 8

MinServiceId == 3

\* failed attempts after which LoginForm shows the locked view
LockThreshold == 3

\* null of a Date or token field, and the id that names no document
Null == -1

NoUser == 0

NoSecret == "null"

(***************************************************************************)
(* Request inputs                                                          *)
(***************************************************************************)
E_ARMY == <<"j","a","n","e","@","a","r","m","y",".","m","i","l",".","i","n">>

E_GMAIL == <<"J","a","n","e","@","g","m","a","i","l",".","c","o","m">>

Emails == { E_ARMY, E_GMAIL }

ID_UPPER == <<"A","R","M","Y","1","2">>

ID_LOWER == <<"a","r","m","y","1","2">>

ServiceIds == { ID_UPPER, ID_LOWER }

P_GOOD == <<"S","t","r","0","n","g","!","P","a","s","s","w","0","r","d">>

P_OTHER == <<"W","r","0","n","g","!","P","a","s","s","w","0","r","d">>

P_WEAK == <<"p","a","s","s","w","o","r","d","1">>

\* a symbol that is none of the special characters of a role password policy
P_TILDE == <<"S","t","r","0","n","g","~","P","a","s","s","w","0","r","d">>

\* the roles of the wizard (RoleKey); the server accepts ValidRoles only
RoleKeys == { "personnel", "family", "veteran", "cert", "commander", "admin", "auditor" }

ValidRoles == { "personnel", "family", "veteran", "cert", "admin" }

\* roles whose RoleConfig carries enforcedMfaMethod: "totp"
EnforcedTotpRoles == { "cert", "commander", "admin", "auditor" }

MfaMethods == { "totp", "email" }

RegisterRequest(e, s, r, pw, m) ==
    [ email |-> e, serviceId |-> s, role |-> r, password |-> pw,
      mfaMethod |-> m, totpSecret |-> "JBSWY3DPEHPK3PXP" ]

\* the registrations submitted: a defence and a private address, an analyst
\* who gives the credential id of the first one under another address, a role
\* the server does not know, a weak password
RegisterRequests ==
    { RegisterRequest(E_ARMY,  ID_UPPER, "personnel", P_GOOD, "totp"),
      RegisterRequest(E_GMAIL, ID_LOWER, "personnel", P_GOOD, "email"),
      RegisterRequest(E_GMAIL, ID_UPPER, "cert",      P_GOOD, "email"),
      RegisterRequest(E_GMAIL, ID_UPPER, "commander", P_GOOD, "totp"),
      RegisterRequest(E_GMAIL, ID_UPPER, "personnel", P_WEAK, "totp") }

\* one address registered with either method, or by an administrator
AccountRegisterRequests ==
    { RegisterRequest(E_ARMY, ID_UPPER, "personnel", P_GOOD, m) : m \in MfaMethods }
        \cup { RegisterRequest(E_ARMY, ID_UPPER, "admin", P_TILDE, "totp") }

\* two people who register under their own addresses with the same role and
\* the same credential id, and an analyst with that credential id too
RegistryRequests ==
    { RegisterRequest(E_ARMY,  ID_UPPER, "personnel", P_GOOD, "totp"),
      RegisterRequest(E_GMAIL, ID_UPPER, "personnel", P_GOOD, "email"),
      RegisterRequest(E_GMAIL, ID_UPPER, "cert",      P_GOOD, "email") }

\* a login that names a role no configuration knows
UnknownRoleLogins ==
    { [ identifier |-> E_ARMY, password |-> P_GOOD, role |-> "contractor" ] }

LoginRequests ==
    [ identifier : Emails \cup ServiceIds,
      password   : { P_GOOD, P_OTHER },
      role       : { "personnel", "cert" } ]

\* a submitted MFA code: the one the account's method expects now, another
\* six-digit code, or text that is not six digits
Codes == { "expected", "wrong", "malformed" }

Procs == { 1, 2 }

UserIds == 1..MaxUsers

Tokens == 1..MaxTokens

\* the case foldings and validations of the requests, computed once
Strings == Emails \cup ServiceIds

Lower == [ s \in Strings |-> toLowerCase(s) ]

Upper == [ s \in Strings |-> toUpperCase(s) ]

(***************************************************************************)
(* State                                                                   *)
(***************************************************************************)
VARIABLES
    users,       \* the User collection: _id -> document
    now,         \* Date.now(), in minutes
    nextId,      \* the next _id the collection hands out
    nextToken,   \* the next value generateVerificationToken returns
    pc,          \* per request handler: where it is suspended
    doc,         \* per request handler: _id of the document it loaded
    reqToken,    \* per request handler: the :token parameter
    last,        \* the last exchange: route, response, security event logged
    passwordPassed, \* accounts whose password a login request has matched
    failStreak,  \* per account: login requests that failed bcrypt.compare since
                 \* the last one that passed it
    verifyOk,    \* per token value: responses "Email verified successfully"
    expired,     \* token values whose expiry passed while an account held them
    mounted,     \* the client component on the page
    hook,        \* state of useEmailOtp
    form,        \* state of the MFA step of LoginForm
    elapsed,     \* seconds since the client's last OTP was sent (Null: none live)
    reg,         \* state of RegisterForm
    failedChecks \* the accounts of the failed password checks of LoginForm, in order

serverVars == << users, now, nextId, nextToken, pc, doc, reqToken, last,
                 passwordPassed, failStreak, verifyOk, expired >>

clientVars == << mounted, hook, form, elapsed, reg, failedChecks >>

vars == << serverVars, clientVars >>

NoSession == [ userId |-> NoUser, role |-> "", iat |-> Null ]

\* the request body kept of an exchange (of /login; none for the other routes)
NoRequest == [ identifier |-> << >>, password |-> << >>, role |-> "" ]

Exchange(route, status, result) ==
    [ route |-> route, status |-> status, result |-> result,
      userId |-> NoUser, mfaMethod |-> "", totpSecret |-> NoSecret,
      session |-> NoSession, token |-> Null, event |-> "",
      request |-> NoRequest ]

\* an exchange of /login, with the body of the request
LoginExchange(q, status, result) ==
    [ Exchange("login", status, result) EXCEPT !.request = q ]

ServerInit ==
    /\ users = << >>
    /\ now = 0
    /\ nextId = 1
    /\ nextToken = 1
    /\ pc = [ p \in Procs |-> "idle" ]
    /\ doc = [ p \in Procs |-> NoUser ]
    /\ reqToken = [ p \in Procs |-> Null ]
    /\ last = Exchange("", 0, "")
    /\ passwordPassed = {}
    /\ failStreak = [ u \in UserIds |-> 0 ]
    /\ verifyOk = [ t \in Tokens |-> 0 ]
    /\ expired = {}

(***************************************************************************)
(* The User collection                                                     *)
(***************************************************************************)
Ids == DOMAIN users

\* User.findOne({ officialEmail }) : the documents the filter matches
FindByEmail(email) == { u \in Ids : users[u].officialEmail = email }

\* the lookup without the role in its filter
FindForLoginAnyRole(identifier, role) ==
    { u \in Ids :
        \/ users[u].officialEmail = Lower[identifier]
        \/ users[u].credentialId = Upper[identifier] }

\* User.findOne({ $or: [{officialEmail: identifier.toLowerCase()},
\*                      {credentialId: identifier.toUpperCase()}], role })
FindForLogin(identifier, role) ==
    { u \in Ids :
        /\ \/ users[u].officialEmail = Lower[identifier]
           \/ users[u].credentialId = Upper[identifier]
        /\ users[u].role = role }

\* User.findOne({ emailVerificationToken, emailVerificationExpiry: { $gt: now } })
FindByToken(token) ==
    { u \in Ids :
        /\ users[u].emailVerificationToken = token
        /\ users[u].emailVerificationExpiry # Null
        /\ users[u].emailVerificationExpiry > now }

\* new User({...}) with the setters of the schema (lowercase, trim)
NewUser(email, serviceId, role, password, mfaMethod, totpSecret) ==
    [ officialEmail             |-> toLowerCase(trim(email)),
      credentialId              |-> trim(serviceId),
      role                      |-> role,
      passwordHash              |-> Hash(password),
      authMethod                |-> IF mfaMethod = "totp" THEN "authenticator" ELSE "email",
      totpSecret                |-> IF mfaMethod = "totp" THEN totpSecret ELSE NoSecret,
      isActivated               |-> FALSE,
      emailVerified             |-> FALSE,
      emailVerificationToken    |-> Null,
      emailVerificationExpiry   |-> Null,
      lastVerificationEmailSent |-> Null ]

\* crypto.randomBytes(32).toString('hex'): a value no earlier call returned
generateVerificationToken == nextToken

\* a reissue that leaves the token the account already holds in place
WithTokenKeepingFirst(user, token) ==
    [ user EXCEPT !.emailVerificationToken = IF @ = Null THEN token ELSE @,
                  !.emailVerificationExpiry = now + EmailVerificationExpiry,
                  !.lastVerificationEmailSent = now ]

\* user.emailVerificationToken = ...; user.emailVerificationExpiry = ...;
\* user.lastVerificationEmailSent = new Date()
WithToken(user, token) ==
    [ user EXCEPT !.emailVerificationToken = token,
                  !.emailVerificationExpiry = now + EmailVerificationExpiry,
                  !.lastVerificationEmailSent = now ]

MarkVerifiedKeepingToken(user) == [ user EXCEPT !.emailVerified = TRUE ]

\* user.emailVerified = true; the token and its expiry are cleared
MarkVerified(user) ==
    [ user EXCEPT !.emailVerified = TRUE,
                  !.emailVerificationToken = Null,
                  !.emailVerificationExpiry = Null ]

Insert(id, user) == [ u \in Ids \cup {id} |-> IF u = id THEN user ELSE users[u] ]

Delete(id) == [ u \in Ids \ {id} |-> users[u] ]

(***************************************************************************)
(* Middleware                                                              *)
(***************************************************************************)
\* validateRegistration: TRUE when no error is pushed (the request carries a
\* well-formed fullName and mobile)
validateRegistration(q) ==
    /\ isEmail(q.email)
    /\ Len(trim(q.serviceId)) >= MinServiceId
    /\ q.role \in ValidRoles
    /\ PasswordStrong(q.password)

\* validateLogin
validateLogin(q) ==
    /\ Len(trim(q.identifier)) >= MinLoginIdentifier
    /\ Len(q.password) >= MinLoginPassword

\* validateMfaVerification: /^\d{6}$/ on the code (exported by the middleware,
\* mounted on no route)
validateMfaVerification(code) == code # "malformed"

\* the body of a register request after validateRegistration: the email is
\* normalised, the service id trimmed and escaped
Sanitized(q) ==
    [ q EXCEPT !.email = normalizeEmail(q.email),
               !.serviceId = escape(trim(q.serviceId)) ]

RegistrationValid == [ q \in RegisterRequests \cup AccountRegisterRequests \cup RegistryRequests |-> validateRegistration(q) ]

RegistrationBody == [ q \in RegisterRequests \cup AccountRegisterRequests \cup RegistryRequests |-> Sanitized(q) ]

LoginValid == [ q \in LoginRequests \cup UnknownRoleLogins |-> validateLogin(q) ]

DefenceEmail == [ e \in Emails |-> defenceEmailPattern(e) ]

PasswordHashes == [ pw \in { P_GOOD, P_OTHER, P_WEAK } |-> Hash(pw) ]

(***************************************************************************)
(* POST /api/auth/register                                                 *)
(***************************************************************************)
CreateUser(body) ==
    LET user == NewUser(body.email, body.serviceId, body.role, body.password,
                        body.mfaMethod, body.totpSecret)
    IN  /\ nextId <= MaxUsers
        /\ nextToken <= MaxTokens
        /\ users' = Insert(nextId, WithToken(user, generateVerificationToken))
        /\ nextId' = nextId + 1
        /\ nextToken' = nextToken + 1
        /\ last' = [ Exchange("register", 201, "Created") EXCEPT
                       !.userId = nextId,
                       !.mfaMethod = user.authMethod,
                       !.token = generateVerificationToken,
                       !.event = "user_registered" ]

Register(q) ==
    /\ IF ~RegistrationValid[q]
       THEN /\ last' = Exchange("register", 400, "ValidationErrors")
            /\ UNCHANGED << users, nextId, nextToken >>
       ELSE IF FindByEmail(RegistrationBody[q].email) # {}
       THEN /\ last' = Exchange("register", 400, "Exists")
            /\ UNCHANGED << users, nextId, nextToken >>
       ELSE CreateUser(RegistrationBody[q])
    /\ UNCHANGED << now, pc, doc, reqToken, passwordPassed, failStreak, verifyOk >>
    /\ UNCHANGED << expired, clientVars >>

(***************************************************************************)
(* POST /api/auth/login                                                    *)
(***************************************************************************)
\* the account's flags tested before the password
LoginFoundFlagsFirst(u, q) ==
    IF ~users[u].isActivated
    THEN /\ last' = LoginExchange(q, 403, "NotActivated")
         /\ UNCHANGED << passwordPassed, failStreak >>
    ELSE IF ~users[u].emailVerified
    THEN /\ last' = [ LoginExchange(q, 403, "EmailNotVerified") EXCEPT !.userId = u ]
         /\ UNCHANGED << passwordPassed, failStreak >>
    ELSE IF users[u].passwordHash # PasswordHashes[q.password]
    THEN /\ failStreak[u] < MaxFailStreak
         /\ failStreak' = [ failStreak EXCEPT ![u] = @ + 1 ]
         /\ last' = [ LoginExchange(q, 401, "InvalidCredentials") EXCEPT
                        !.event = "login_failed:invalid_password" ]
         /\ UNCHANGED passwordPassed
    ELSE /\ passwordPassed' = passwordPassed \cup {u}
         /\ failStreak' = [ failStreak EXCEPT ![u] = 0 ]
         /\ last' = [ LoginExchange(q, 200, "MfaRequired") EXCEPT
                        !.userId = u,
                        !.mfaMethod = users[u].authMethod,
                        !.totpSecret = IF users[u].authMethod = "authenticator"
                                       THEN users[u].totpSecret ELSE NoSecret,
                        !.event = "login_success" ]

LoginFound(u, q) ==
    IF users[u].passwordHash # PasswordHashes[q.password]
    THEN /\ failStreak[u] < MaxFailStreak
         /\ failStreak' = [ failStreak EXCEPT ![u] = @ + 1 ]
         /\ last' = [ LoginExchange(q, 401, "InvalidCredentials") EXCEPT
                        !.event = "login_failed:invalid_password" ]
         /\ UNCHANGED passwordPassed
    ELSE /\ passwordPassed' = passwordPassed \cup {u}
         /\ failStreak' = [ failStreak EXCEPT ![u] = 0 ]
         /\ IF ~users[u].isActivated
            THEN last' = LoginExchange(q, 403, "NotActivated")
            ELSE IF ~users[u].emailVerified
            THEN last' = [ LoginExchange(q, 403, "EmailNotVerified") EXCEPT !.userId = u ]
            ELSE last' = [ LoginExchange(q, 200, "MfaRequired") EXCEPT
                             !.userId = u,
                             !.mfaMethod = users[u].authMethod,
                             !.totpSecret = IF users[u].authMethod = "authenticator"
                                            THEN users[u].totpSecret ELSE NoSecret,
                             !.event = "login_success" ]

\* the lookup failure answered with a status of its own
LoginRevealingUnknown(q) ==
    /\ IF ~LoginValid[q]
       THEN /\ last' = LoginExchange(q, 400, "ValidationFailed")
            /\ UNCHANGED << passwordPassed, failStreak >>
       ELSE IF FindForLogin(q.identifier, q.role) = {}
       THEN /\ last' = [ LoginExchange(q, 404, "UserNotFound") EXCEPT
                           !.event = "login_failed:user_not_found" ]
            /\ UNCHANGED << passwordPassed, failStreak >>
       ELSE \E u \in FindForLogin(q.identifier, q.role) : LoginFound(u, q)
    /\ UNCHANGED << users, now, nextId, nextToken, pc, doc, reqToken, verifyOk >>
    /\ UNCHANGED << expired, clientVars >>

Login(q) ==
    /\ IF ~LoginValid[q]
       THEN /\ last' = LoginExchange(q, 400, "ValidationFailed")
            /\ UNCHANGED << passwordPassed, failStreak >>
       ELSE IF FindForLogin(q.identifier, q.role) = {}
       THEN /\ last' = [ LoginExchange(q, 401, "InvalidCredentials") EXCEPT
                           !.event = "login_failed:user_not_found" ]
            /\ UNCHANGED << passwordPassed, failStreak >>
       ELSE \E u \in FindForLogin(q.identifier, q.role) : LoginFound(u, q)
    /\ UNCHANGED << users, now, nextId, nextToken, pc, doc, reqToken, verifyOk >>
    /\ UNCHANGED << expired, clientVars >>

(***************************************************************************)
(* POST /api/auth/verify-mfa                                               *)
(***************************************************************************)
\* jwt.sign({ userId, email, role }, secret, { expiresIn: '7d' })
Sign(u) == [ userId |-> u, role |-> users[u].role, iat |-> now ]

\* the handler reads code and method from the body and uses neither; lastLogin
\* is no path of the schema, so the save stores nothing
VerifyMfa(userId, code, method) ==
    /\ IF userId \notin Ids
       THEN last' = Exchange("verify-mfa", 404, "UserNotFound")
       ELSE last' = [ Exchange("verify-mfa", 200, "MfaVerified") EXCEPT
                        !.userId = userId,
                        !.session = Sign(userId) ]
    /\ UNCHANGED << users, now, nextId, nextToken, pc, doc, reqToken,
                    passwordPassed, failStreak, verifyOk >>
    /\ UNCHANGED << expired, clientVars >>

(***************************************************************************)
(* verifyToken: the middleware in front of the protected routes            *)
(***************************************************************************)
ServerKey == "JWT_SECRET"

\* expiresIn: '7d', in minutes
SessionLifetime == 10080

\* the Authorization header: a payload and the key its signature was made with
Bearer(payload, key) == [ payload |-> payload, key |-> key ]

NoBearer == Bearer(NoSession, "")

\* what the holder of the last response can present: the credential in it,
\* the same payload signed with another key, or no header when it has none
Held ==
    IF last.session = NoSession
    THEN { NoBearer }
    ELSE { Bearer(last.session, ServerKey), Bearer(last.session, "other") }

Examined(bearer, status, result) ==
    [ Exchange("protected", status, result) EXCEPT !.session = bearer.payload ]

verifyToken(bearer) ==
    /\ last' =
         IF bearer = NoBearer
         THEN Examined(bearer, 401, "NoToken")
         ELSE IF bearer.key # ServerKey
         THEN Examined(bearer, 401, "InvalidToken")
         ELSE IF now >= bearer.payload.iat + SessionLifetime
         THEN Examined(bearer, 401, "TokenExpired")
         ELSE IF bearer.payload.userId \notin Ids
         THEN Examined(bearer, 401, "UserNotFound")
         ELSE IF ~users[bearer.payload.userId].isActivated
         THEN Examined(bearer, 403, "NotActivated")
         ELSE [ Examined(bearer, 200, "Accepted") EXCEPT
                  !.userId = bearer.payload.userId ]
    /\ UNCHANGED << users, now, nextId, nextToken, pc, doc, reqToken,
                    passwordPassed, failStreak, verifyOk >>
    /\ UNCHANGED << expired, clientVars >>

(***************************************************************************)
(* POST /api/auth/send-verification and /api/auth/resend-verification      *)
(***************************************************************************)
Throttled(u, limit) ==
    /\ users[u].lastVerificationEmailSent # Null
    /\ now - users[u].lastVerificationEmailSent < limit

\* a reissue that also puts the account back on e-mail codes
IssueTokenResettingMethod(u, route, event) ==
    /\ nextToken <= MaxTokens
    /\ users' = [ users EXCEPT ![u] =
                   [ WithToken(@, generateVerificationToken) EXCEPT
                       !.authMethod = "email", !.totpSecret = NoSecret ] ]
    /\ nextToken' = nextToken + 1
    /\ last' = [ Exchange(route, 200, "Sent") EXCEPT
                   !.userId = u, !.token = generateVerificationToken, !.event = event ]

IssueToken(u, route, event) ==
    /\ nextToken <= MaxTokens
    /\ users' = [ users EXCEPT ![u] = WithToken(@, generateVerificationToken) ]
    /\ nextToken' = nextToken + 1
    /\ last' = [ Exchange(route, 200, "Sent") EXCEPT
                   !.userId = u, !.token = generateVerificationToken, !.event = event ]

SendVerification(email, purpose) ==
    /\ IF FindByEmail(Lower[email]) = {}
       THEN /\ last' = Exchange("send-verification", 404, "UserNotFound")
            /\ UNCHANGED << users, nextToken >>
       ELSE \E u \in FindByEmail(Lower[email]) :
            IF users[u].emailVerified /\ purpose = "registration"
            THEN /\ last' = [ Exchange("send-verification", 400, "AlreadyVerified")
                                EXCEPT !.userId = u ]
                 /\ UNCHANGED << users, nextToken >>
            ELSE IF Throttled(u, SendRateLimit)
            THEN /\ last' = [ Exchange("send-verification", 429, "Throttled")
                                EXCEPT !.userId = u ]
                 /\ UNCHANGED << users, nextToken >>
            ELSE IssueToken(u, "send-verification", "email_verification_sent")
    /\ UNCHANGED << now, nextId, pc, doc, reqToken, passwordPassed, failStreak, verifyOk >>
    /\ UNCHANGED << expired, clientVars >>

\* the resend without its rate limit
ResendVerificationUnthrottled(email) ==
    /\ IF FindByEmail(Lower[email]) = {}
       THEN /\ last' = Exchange("resend-verification", 404, "UserNotFound")
            /\ UNCHANGED << users, nextToken >>
       ELSE \E u \in FindByEmail(Lower[email]) :
            IF users[u].emailVerified
            THEN /\ last' = [ Exchange("resend-verification", 400, "AlreadyVerified")
                                EXCEPT !.userId = u ]
                 /\ UNCHANGED << users, nextToken >>
            ELSE IssueToken(u, "resend-verification", "")
    /\ UNCHANGED << now, nextId, pc, doc, reqToken, passwordPassed, failStreak, verifyOk >>
    /\ UNCHANGED << expired, clientVars >>

ResendVerification(email) ==
    /\ IF FindByEmail(Lower[email]) = {}
       THEN /\ last' = Exchange("resend-verification", 404, "UserNotFound")
            /\ UNCHANGED << users, nextToken >>
       ELSE \E u \in FindByEmail(Lower[email]) :
            IF users[u].emailVerified
            THEN /\ last' = [ Exchange("resend-verification", 400, "AlreadyVerified")
                                EXCEPT !.userId = u ]
                 /\ UNCHANGED << users, nextToken >>
            ELSE IF Throttled(u, ResendRateLimit)
            THEN /\ last' = [ Exchange("resend-verification", 429, "Throttled")
                                EXCEPT !.userId = u ]
                 /\ UNCHANGED << users, nextToken >>
            ELSE IssueToken(u, "resend-verification", "")
    /\ UNCHANGED << now, nextId, pc, doc, reqToken, passwordPassed, failStreak, verifyOk >>
    /\ UNCHANGED << expired, clientVars >>

(***************************************************************************)
(* send-verification and resend-verification with requests in flight       *)
(* Each handler awaits User.findOne, tests the document it was given and   *)
(* awaits user.save(): two steps, between which other requests are served. *)
(* SendVerification and ResendVerification above are the two steps taken   *)
(* with nothing in between.                                                *)
(***************************************************************************)
\* the handlers that have passed their tests and have not saved yet
Issuing == { p \in Procs : pc[p] \in { "send-verification", "resend-verification" } }

\* the throttle interval of a route
RateLimit(route) == IF route = "send-verification" THEN SendRateLimit ELSE ResendRateLimit

\* the handler of the route suspended before its save
Suspended(p, route, u) ==
    /\ nextToken + Cardinality(Issuing) <= MaxTokens
    /\ pc' = [ pc EXCEPT ![p] = route ]
    /\ doc' = [ doc EXCEPT ![p] = u ]
    /\ UNCHANGED last

SendVerificationFind(p, email, purpose) ==
    /\ pc[p] = "idle"
    /\ IF FindByEmail(Lower[email]) = {}
       THEN /\ last' = Exchange("send-verification", 404, "UserNotFound")
            /\ UNCHANGED << pc, doc >>
       ELSE \E u \in FindByEmail(Lower[email]) :
            IF users[u].emailVerified /\ purpose = "registration"
            THEN /\ last' = [ Exchange("send-verification", 400, "AlreadyVerified")
                                EXCEPT !.userId = u ]
                 /\ UNCHANGED << pc, doc >>
            ELSE IF Throttled(u, SendRateLimit)
            THEN /\ last' = [ Exchange("send-verification", 429, "Throttled")
                                EXCEPT !.userId = u ]
                 /\ UNCHANGED << pc, doc >>
            ELSE Suspended(p, "send-verification", u)
    /\ UNCHANGED << users, now, nextId, nextToken, reqToken, passwordPassed,
                    failStreak, verifyOk >>
    /\ UNCHANGED << expired, clientVars >>

ResendVerificationFind(p, email) ==
    /\ pc[p] = "idle"
    /\ IF FindByEmail(Lower[email]) = {}
       THEN /\ last' = Exchange("resend-verification", 404, "UserNotFound")
            /\ UNCHANGED << pc, doc >>
       ELSE \E u \in FindByEmail(Lower[email]) :
            IF users[u].emailVerified
            THEN /\ last' = [ Exchange("resend-verification", 400, "AlreadyVerified")
                                EXCEPT !.userId = u ]
                 /\ UNCHANGED << pc, doc >>
            ELSE IF Throttled(u, ResendRateLimit)
            THEN /\ last' = [ Exchange("resend-verification", 429, "Throttled")
                                EXCEPT !.userId = u ]
                 /\ UNCHANGED << pc, doc >>
            ELSE Suspended(p, "resend-verification", u)
    /\ UNCHANGED << users, now, nextId, nextToken, reqToken, passwordPassed,
                    failStreak, verifyOk >>
    /\ UNCHANGED << expired, clientVars >>

\* user.save() of either handler, with the token it generated, and the answer
VerificationSave(p) ==
    /\ p \in Issuing
    /\ IF doc[p] \notin Ids
       THEN \* the document is gone: save() rejects, the catch block answers 500
            /\ last' = Exchange(pc[p], 500, "ServerError")
            /\ UNCHANGED << users, nextToken >>
       ELSE IssueToken(doc[p], pc[p],
                       IF pc[p] = "send-verification" THEN "email_verification_sent" ELSE "")
    /\ pc' = [ pc EXCEPT ![p] = "idle" ]
    /\ doc' = [ doc EXCEPT ![p] = NoUser ]
    /\ UNCHANGED << now, nextId, reqToken, passwordPassed, failStreak, verifyOk >>
    /\ UNCHANGED << expired, clientVars >>

(***************************************************************************)
(* GET /api/auth/verify-email/:token                                       *)
(* The handler awaits the lookup and then the save: two steps, between     *)
(* which other requests are served.                                        *)
(***************************************************************************)
VerifyEmailFind(p, token) ==
    /\ pc[p] = "idle"
    /\ IF FindByToken(token) = {}
       THEN /\ last' = [ Exchange("verify-email", 400, "InvalidOrExpired")
                           EXCEPT !.token = token ]
            /\ UNCHANGED << pc, doc, reqToken >>
       ELSE \E u \in FindByToken(token) :
            /\ pc' = [ pc EXCEPT ![p] = "save" ]
            /\ doc' = [ doc EXCEPT ![p] = u ]
            /\ reqToken' = [ reqToken EXCEPT ![p] = token ]
            /\ UNCHANGED last
    /\ UNCHANGED << users, now, nextId, nextToken, passwordPassed, failStreak, verifyOk >>
    /\ UNCHANGED << expired, clientVars >>

VerifyEmailSave(p) ==
    /\ pc[p] = "save"
    /\ IF doc[p] \notin Ids
       THEN \* the document is gone: save() rejects, the catch block answers 500
            /\ last' = [ Exchange("verify-email", 500, "ServerError")
                           EXCEPT !.token = reqToken[p] ]
            /\ UNCHANGED << users, verifyOk >>
       ELSE /\ users' = [ users EXCEPT ![doc[p]] = MarkVerified(@) ]
            /\ verifyOk' = [ verifyOk EXCEPT ![reqToken[p]] = @ + 1 ]
            /\ last' = [ Exchange("verify-email", 200, "Verified") EXCEPT
                           !.userId = doc[p],
                           !.token = reqToken[p],
                           !.event = "email_verified" ]
    /\ pc' = [ pc EXCEPT ![p] = "idle" ]
    /\ doc' = [ doc EXCEPT ![p] = NoUser ]
    /\ reqToken' = [ reqToken EXCEPT ![p] = Null ]
    /\ UNCHANGED << now, nextId, nextToken, passwordPassed, failStreak >>
    /\ UNCHANGED << expired, clientVars >>

(***************************************************************************)
(* Environment: the clock, the TTL monitor of the collection, the          *)
(* administrator who activates an account                                  *)
(***************************************************************************)
Tick ==
    /\ now < MaxTime
    /\ now' = now + 1
    /\ UNCHANGED << users, nextId, nextToken, pc, doc, reqToken, last,
                    passwordPassed, failStreak, verifyOk >>
    /\ expired' = expired \cup
                    { users[u].emailVerificationToken : u \in
                        { v \in Ids : /\ users[v].emailVerificationExpiry # Null
                                      /\ users[v].emailVerificationExpiry <= now + 1 } }
    /\ UNCHANGED clientVars

\* index { emailVerificationExpiry: 1 }, expireAfterSeconds: 0 : the monitor
\* removes a document whose emailVerificationExpiry has passed
TtlExpire(u) ==
    /\ u \in Ids
    /\ users[u].emailVerificationExpiry # Null
    /\ users[u].emailVerificationExpiry <= now
    /\ users' = Delete(u)
    /\ UNCHANGED << now, nextId, nextToken, pc, doc, reqToken, last,
                    passwordPassed, failStreak, verifyOk >>
    /\ UNCHANGED << expired, clientVars >>

AdminActivate(u) ==
    /\ u \in Ids
    /\ ~users[u].isActivated
    /\ users' = [ users EXCEPT ![u].isActivated = TRUE ]
    /\ UNCHANGED << now, nextId, nextToken, pc, doc, reqToken, last,
                    passwordPassed, failStreak, verifyOk >>
    /\ UNCHANGED << expired, clientVars >>

(***************************************************************************)
(* Client: the role configurations of the wizards (roleConfig.ts)          *)
(*   The roles drawn are WizardRoles; veteran and commander are configured *)
(*   like cert (text credential, defence address required).                *)
(***************************************************************************)
WizardRoles == { "personnel", "family", "cert", "admin", "auditor" }

E_MOD == <<"a","u","d","i","t","o","r","@","m","o","d",".","g","o","v",".","i","n">>

auditorWhitelist ==
    { E_MOD,
      <<"a","u","d","i","t",".","o","p","s","@","m","o","d",".","g","o","v",".","i","n">>,
      <<"a","u","d","i","t",".","c","t","r","l","@","d","e","f","e","n","c","e",".","i","n">> }

AdminDomains ==
    { <<"m","o","d",".","g","o","v",".","i","n">>, <<"d","e","f","e","n","c","e",".","i","n">> }

\* /^[a-z0-9._%+-]+@(?:mod\.gov\.in|defence\.in)$/i
adminEmailPattern(s) ==
    LET t == toLowerCase(s)
    IN  /\ Count(t, "@") = 1
        /\ LocalPart(t) # <<>>
        /\ \A i \in 1..Len(LocalPart(t)) : IsEmailLocalChar(LocalPart(t)[i])
        /\ DomainPart(t) \in AdminDomains

inputType(role) == IF role \in { "admin", "auditor" } THEN "email" ELSE "text"

\* enforceUppercase is true in every configuration that has a text credential
enforceUppercase(role) == inputType(role) = "text"

requiresDefenceEmail(role) == role # "family"

HasEmailPattern(role) == role # "family"

emailPattern(role, s) ==
    IF role \in { "admin", "auditor" } THEN adminEmailPattern(s) ELSE defenceEmailPattern(s)

HasEmailWhitelist(role) == role = "auditor"

emailErrorMessage(role) ==
    CASE role = "personnel" -> "Defence Personnel must use an official defence email domain (army/navy/airforce/drdo)."
      [] role = "cert"      -> "CERT Analysts must use a defence-controlled email domain."
      [] role = "admin"     -> "Administrators must authenticate with mod.gov.in or defence.in email."
      [] role = "auditor"   -> "Auditor email must match approved defence domains and whitelist."
      [] OTHER              -> ""

emailWarningMessage(role) ==
    IF role = "family"
    THEN "Non-defence email detected. Registration will be flagged for manual verification."
    ELSE ""

idValidationMessage(role) ==
    CASE role = "personnel" -> "Service ID must be 6-10 characters, start with ARMY, NAVY, AIRF, or DRDO, and contain only letters/numbers."
      [] role = "family"    -> "D-FID must start with D-FID- followed by at least 4 digits."
      [] role = "cert"      -> "Analyst ID must include the CERT- prefix and end with digits."
      [] role = "admin"     -> "Email must belong to the mod.gov.in or defence.in domain."
      [] role = "auditor"   -> "Enter a valid official email address."

StartsWith(s, p) == Len(s) >= Len(p) /\ SubSeq(s, 1, Len(p)) = p

After(s, p) == SubSeq(s, Len(p) + 1, Len(s))

BranchPrefixes ==
    { <<"A","R","M","Y">>, <<"N","A","V","Y">>, <<"A","I","R","F">>, <<"D","R","D","O">> }

MinBranchSuffix == 2

MaxBranchSuffix == 6

MinFamilyDigits == 4

MinCertDigits == 3

\* /^(?:ARMY|NAVY|AIRF|DRDO)[A-Z0-9]{2,6}$/
PersonnelIdPattern(s) ==
    \E p \in BranchPrefixes :
        /\ StartsWith(s, p)
        /\ Len(After(s, p)) \in MinBranchSuffix..MaxBranchSuffix
        /\ \A i \in 1..Len(After(s, p)) : IsUpper(After(s, p)[i]) \/ IsDigit(After(s, p)[i])

\* /^D-FID-\d{4,}$/i
FamilyIdPattern(s) ==
    LET t == toUpperCase(s)
        p == <<"D","-","F","I","D","-">>
    IN  /\ StartsWith(t, p)
        /\ Len(After(t, p)) >= MinFamilyDigits
        /\ \A i \in 1..Len(After(t, p)) : IsDigit(After(t, p)[i])

\* /^CERT-[A-Z0-9-]*\d{3,}$/i
CertIdPattern(s) ==
    LET t == toUpperCase(s)
        p == <<"C","E","R","T","-">>
        r == After(t, p)
    IN  /\ StartsWith(t, p)
        /\ Len(r) >= MinCertDigits
        /\ \A i \in 1..Len(r) : IsUpper(r[i]) \/ IsDigit(r[i]) \/ r[i] = "-"
        /\ \A i \in (Len(r) - MinCertDigits + 1)..Len(r) : IsDigit(r[i])

idPattern(role, s) ==
    CASE role = "personnel" -> PersonnelIdPattern(s)
      [] role = "family"    -> FamilyIdPattern(s)
      [] role = "cert"      -> CertIdPattern(s)
      [] role = "admin"     -> adminEmailPattern(s)
      [] role = "auditor"   -> SchemaEmailMatch(toLowerCase(s))

\* value.replace(/\s+/g, "")
RemoveSpace(value) == SelectSeq(value, LAMBDA c : ~IsSpace(c))

\* the same with value.replace(/\s/, ""): only the first space is removed
computeNormalizedIdFirstSpace(value, role) ==
    LET spaces  == { i \in 1..Len(value) : IsSpace(value[i]) }
        first   == CHOOSE i \in spaces : \A j \in spaces : i <= j
        cleaned == IF spaces = {} THEN value
                   ELSE SubSeq(value, 1, first - 1) \o SubSeq(value, first + 1, Len(value))
    IN  IF role = "" THEN trim(value)
        ELSE IF inputType(role) = "email" THEN toLowerCase(trim(value))
        ELSE IF ~enforceUppercase(role) THEN trim(cleaned)
        ELSE toUpperCase(cleaned)

\* computeNormalizedId(value, config); role "" : no configuration
computeNormalizedId(value, role) ==
    IF role = "" THEN trim(value)
    ELSE IF inputType(role) = "email" THEN toLowerCase(trim(value))
    ELSE IF ~enforceUppercase(role) THEN trim(RemoveSpace(value))
    ELSE toUpperCase(RemoveSpace(value))

\* what the user types in the credential field
ID_SPACED == <<" ","a","r","m","y"," ","1","2">>

ID_FAMILY == <<"d","-","f","i","d","-","1","2","3","4">>

ID_CERT == <<"C","E","R","T","-","A","N","L","-","0","9","4">>

\* an address typed with a capital and a space before it
ID_MAIL == << " ", "A" >> \o Tail(E_MOD)

TypedIds == { ID_SPACED, ID_FAMILY, ID_CERT, E_MOD, ID_MAIL }

\* what the user types in the email field
TypedEmails == { E_ARMY, E_GMAIL, E_MOD }

RolesOrNone == WizardRoles \cup { "" }

IdValues ==
    TypedIds \cup { << >> } \cup
    { computeNormalizedId(v, r) : v \in TypedIds, r \in RolesOrNone }

EmailValues == TypedEmails \cup { << >> } \cup { toLowerCase(trim(e)) : e \in TypedEmails }

\* the normal forms and pattern tests of the wizards, computed once
NormalizedId == [ r \in RolesOrNone |-> [ v \in IdValues |-> computeNormalizedId(v, r) ] ]

IdMatches == [ r \in WizardRoles |-> [ v \in IdValues |-> idPattern(r, v) ] ]

EmailCandidate == [ e \in EmailValues |-> toLowerCase(trim(e)) ]

EmailMatches == [ r \in WizardRoles |-> [ e \in EmailValues \cup IdValues |-> emailPattern(r, e) ] ]

IsDefenceEmail == [ e \in EmailValues |-> defenceEmailPattern(toLowerCase(e)) ]

(***************************************************************************)
(* Client: one-time codes delivered to the user                            *)
(*   useEmailOtp (the hook) and the MFA step of LoginForm each keep a      *)
(*   countdown driven by a one-second interval.                            *)
(***************************************************************************)
OTP_LENGTH == 6

OTP_EXPIRY_SECONDS == 60

MinPhoneDigits == 10

MaxPhoneDigits == 15

\* seconds of the client's clock that are followed after a code was sent
MaxElapsed == 62

\* what the user types in the code field: the code delivered, another code,
\* text that is no six-digit code
DeliveredCode == <<"4","8","2","9","1","3">>

TypedCodes == { DeliveredCode, <<"1","1","1","1","1","1">>, <<"4","8","a","9">> }

TypedPhones == { <<"+","9","1"," ","9","8","7","6","5","4","3","2","1","0">>,
                 <<"9","8","7","6","5">> }

slice(s, n) == SubSeq(s, 1, IF Len(s) < n THEN Len(s) ELSE n)

\* value.replace(/\D/g, "")
DigitsOnly(value) == SelectSeq(value, IsDigit)

\* value.replace(/\D/g, "").slice(0, OTP_LENGTH)
sanitizeOtpInput(value) == slice(DigitsOnly(value), OTP_LENGTH)

\* /^\d{6}$/.test(otp)
isValidOtpFormat(otp) == Len(otp) = OTP_LENGTH /\ \A i \in 1..Len(otp) : IsDigit(otp[i])

SanitizedOtp == [ v \in TypedCodes |-> sanitizeOtpInput(v) ]

TypedDigits == [ v \in TypedCodes |-> DigitsOnly(v) ]

PhoneDigits == [ v \in TypedPhones |-> slice(DigitsOnly(v), MaxPhoneDigits) ]

ValidOtpFormat == [ v \in { SanitizedOtp[c] : c \in TypedCodes } \cup { << >> } |->
                      isValidOtpFormat(v) ]

\* roleConfigurations[role].enforcedMfaMethod ("" : none)
enforcedMfaMethod(role) == IF role \in EnforcedTotpRoles THEN "totp" ELSE ""

HookInit ==
    [ otpCode |-> << >>, otpSent |-> FALSE, otpCountdown |-> 0, otpError |-> "",
      timerRef |-> FALSE,     \* timerRef.current holds an interval
      intervals |-> 0,        \* the intervals set and not cleared
      returned |-> "none",    \* what the last sendOtp or verifyOtp returned
      accepted |-> "none" ]   \* verifyOtp returned true for the code last sent:
                              \* "none", "once", "again" (more than once)

\* minutes the locked view of LoginForm displays
LockoutMinutes == 60

\* what the user types in the password field of LoginForm: the last one meets
\* the baseline policy with a symbol the administrators' policy does not list
TypedPasswords == { P_GOOD, P_WEAK, P_TILDE }

\* /[!@#$%^&*()_+\-=\[\]{};':"\\|,.<>\/?]/ (the double quote and the backslash
\* are in no password typed here)
SpecialCharacters ==
    { "!", "@", "#", "$", "%", "^", "&", "*", "(", ")", "_", "+", "-", "=", "[", "]",
      "{", "}", ";", "'", ":", "|", ",", ".", "<", ">", "/", "?" }

HasPasswordPolicy(role) == role = "admin"

\* config.passwordPolicy: password.length < minLength ||
\*                        (requireSpecialCharacter && !specialCharacterRegex.test(password))
passwordPolicy(role, password) ==
    /\ Len(password) >= MinPasswordLength
    /\ \E i \in 1..Len(password) : password[i] \in SpecialCharacters

\* PASSWORD_POLICY_REGEX.test(password)
PasswordPolicyOk == [ pw \in TypedPasswords |-> PasswordStrong(pw) ]

RolePasswordOk == [ pw \in TypedPasswords |-> passwordPolicy("admin", pw) ]

requiresEmailEntry(role) ==
    role # "" /\ (requiresDefenceEmail(role) \/ inputType(role) = "email")

showServiceIdField(role) == role = "" \/ inputType(role) # "email"

\* the useState initial values of LoginForm, with the role given chosen
FormInit(role) ==
    [ currentStep |-> 1, failedAttempts |-> 0, isLocked |-> FALSE,
      lockoutTime |-> LockoutMinutes,
      userType |-> role, serviceId |-> << >>, serviceIdError |-> "",
      email |-> << >>, emailError |-> "", password |-> << >>, passwordError |-> "",
      mfaMethod |-> "totp", phoneNumber |-> << >>,
      phoneError |-> "", otpCode |-> << >>, otpSent |-> FALSE, otpCountdown |-> 0,
      otpTimerRef |-> FALSE,  \* otpTimerRef.current holds an interval
      intervals |-> 0,        \* the intervals set and not cleared
      toast |-> "",           \* title of the last toast
      remaining |-> Null ]    \* the attempts remaining the last "Login Failed"
                              \* toast states

\* LoginForm as handleLogin leaves it when the credentials typed are accepted
FormAtMfaStep(role) ==
    [ FormInit(role) EXCEPT
        !.currentStep = 3,
        !.serviceId = IF role = "cert" THEN ID_CERT ELSE ID_UPPER,
        !.email = E_ARMY,
        !.password = P_GOOD,
        !.toast = "Credentials Verified" ]

\* what LoginForm renders
LoginView ==
    IF form.isLocked THEN "Locked"
    ELSE CASE form.currentStep = 1 -> "Credentials"
           [] form.currentStep = 2 -> "Password"
           [] form.currentStep = 3 -> "MFA"

\* what the user types in the name and mobile fields of RegisterForm
TypedNames == { <<"J","a","n","e">> }

MobileDigits == [ v \in TypedPhones |-> DigitsOnly(v) ]

\* the useState initial values of RegisterForm (unit, free text nothing reads,
\* is left out)
RegInit ==
    [ fullName |-> << >>, email |-> << >>, mobile |-> << >>, userType |-> "",
      serviceId |-> << >>, serviceIdError |-> "", mfaMethod |-> "totp",
      agreedToTerms |-> FALSE, currentStep |-> 1, isSubmitted |-> FALSE,
      isVerified |-> FALSE, showMFASetup |-> FALSE, emailError |-> "",
      emailWarning |-> "",
      timeout |-> FALSE,      \* the setTimeout of handleSubmit is pending
      toast |-> "" ]          \* title of the last toast

ClientInit ==
    /\ mounted \in { "useEmailOtp", "LoginForm" }
    /\ hook = HookInit
    /\ \E role \in { "personnel", "cert" } : form = FormAtMfaStep(role)
    /\ elapsed = Null
    /\ reg = RegInit
    /\ failedChecks = << >>

\* the callback of setInterval: setOtpCountdown(prev => ...)
Countdown(prev) == IF prev <= 1 THEN 0 ELSE prev - 1

(* ---- useEmailOtp ---- *)
\* clearInterval(timerRef.current); timerRef.current = null
clearTimer(h) ==
    IF h.timerRef THEN [ h EXCEPT !.timerRef = FALSE, !.intervals = @ - 1 ] ELSE h

\* startCountdown without its clearTimer()
startCountdownLeaking(h) ==
    [ h EXCEPT !.otpCountdown = OTP_EXPIRY_SECONDS,
               !.timerRef = TRUE, !.intervals = @ + 1 ]

startCountdown(h) ==
    [ clearTimer(h) EXCEPT !.otpCountdown = OTP_EXPIRY_SECONDS,
                           !.timerRef = TRUE, !.intervals = @ + 1 ]

\* the callbacks of n intervals, one after the other
RECURSIVE TimerFired(_, _)
TimerFired(h, n) ==
    IF n = 0 THEN h
    ELSE LET counted == [ h EXCEPT !.otpCountdown = Countdown(@) ]
         IN  TimerFired(IF h.otpCountdown <= 1 THEN clearTimer(counted) ELSE counted,
                        n - 1)

setOtpCode(value) ==
    /\ mounted = "useEmailOtp"
    /\ hook' = [ hook EXCEPT !.otpCode = SanitizedOtp[value], !.otpError = "",
                             !.returned = "none" ]
    /\ UNCHANGED << mounted, form, elapsed, reg, failedChecks, serverVars >>

sendOtp(email) ==
    /\ mounted = "useEmailOtp"
    /\ IF trim(email) = << >>
       THEN /\ hook' = [ hook EXCEPT !.otpError = "Email is required to receive OTP.",
                                     !.returned = "false" ]
            /\ UNCHANGED elapsed
       ELSE /\ hook' = startCountdown([ hook EXCEPT !.otpError = "", !.otpCode = << >>,
                                                     !.otpSent = TRUE,
                                                     !.returned = "true",
                                                     !.accepted = "none" ])
            /\ elapsed' = 0
    /\ UNCHANGED << mounted, form, reg, failedChecks, serverVars >>

verifyOtpFormatFirst ==
    /\ mounted = "useEmailOtp"
    /\ IF ~hook.otpSent
       THEN hook' = [ hook EXCEPT !.otpError = "Please request an OTP first.",
                                  !.returned = "false" ]
       ELSE IF ~ValidOtpFormat[hook.otpCode]
       THEN hook' = [ hook EXCEPT !.otpError = "Please enter a valid 6-digit code.",
                                  !.returned = "false" ]
       ELSE IF hook.otpCountdown = 0
       THEN hook' = [ hook EXCEPT !.otpError = "OTP has expired. Please request a new one.",
                                  !.returned = "false" ]
       ELSE hook' = [ hook EXCEPT !.returned = "true",
                                  !.accepted = IF @ = "none" THEN "once" ELSE "again" ]
    /\ UNCHANGED << mounted, form, elapsed, reg, failedChecks, serverVars >>

verifyOtp ==
    /\ mounted = "useEmailOtp"
    /\ IF ~hook.otpSent
       THEN hook' = [ hook EXCEPT !.otpError = "Please request an OTP first.",
                                  !.returned = "false" ]
       ELSE IF hook.otpCountdown = 0
       THEN hook' = [ hook EXCEPT !.otpError = "OTP has expired. Please request a new one.",
                                  !.returned = "false" ]
       ELSE IF ~ValidOtpFormat[hook.otpCode]
       THEN hook' = [ hook EXCEPT !.otpError = "Please enter a valid 6-digit code.",
                                  !.returned = "false" ]
       ELSE hook' = [ hook EXCEPT !.returned = "true",
                                  !.accepted = IF @ = "none" THEN "once" ELSE "again" ]
    /\ UNCHANGED << mounted, form, elapsed, reg, failedChecks, serverVars >>

resetOtp ==
    /\ mounted = "useEmailOtp"
    /\ hook' = [ HookInit EXCEPT !.intervals = clearTimer(hook).intervals ]
    /\ elapsed' = Null
    /\ UNCHANGED << mounted, form, reg, failedChecks, serverVars >>

(* ---- LoginForm, step 3 ---- *)
\* clearInterval(otpTimerRef.current); otpTimerRef.current = null
clearOtpTimer(f) ==
    IF f.otpTimerRef THEN [ f EXCEPT !.otpTimerRef = FALSE, !.intervals = @ - 1 ] ELSE f

startOtpCountdown(f) ==
    [ clearOtpTimer(f) EXCEPT !.otpCountdown = OTP_EXPIRY_SECONDS,
                              !.otpTimerRef = TRUE, !.intervals = @ + 1 ]

\* the callbacks of n intervals, one after the other
RECURSIVE OtpTimerFired(_, _)
OtpTimerFired(f, n) ==
    IF n = 0 THEN f
    ELSE LET counted == [ f EXCEPT !.otpCountdown = Countdown(@) ]
         IN  OtpTimerFired(IF f.otpCountdown <= 1 THEN clearOtpTimer(counted) ELSE counted,
                           n - 1)

\* the reset that handlePhoneChange, handleMfaMethodChange and the effect on
\* mfaMethod share: clearOtpTimer(); setOtpSent(false); setOtpCountdown(0)
OtpCleared(f) == [ clearOtpTimer(f) EXCEPT !.otpSent = FALSE, !.otpCountdown = 0 ]

\* handleMfaMethodChange without the test of the role's enforced method
handleMfaMethodChangeUnenforced(value) ==
    /\ mounted = "LoginForm"
    /\ LoginView = "MFA"
    /\ form' = [ OtpCleared(form) EXCEPT
                   !.mfaMethod = IF value = "sms" THEN "sms" ELSE "totp",
                   !.otpCode = << >>,
                   !.phoneError = IF value = "sms" THEN @ ELSE "" ]
    /\ elapsed' = Null
    /\ UNCHANGED << mounted, hook, reg, failedChecks, serverVars >>

handleMfaMethodChange(value) ==
    /\ mounted = "LoginForm"
    /\ LoginView = "MFA"
    /\ IF enforcedMfaMethod(form.userType) # ""
       THEN /\ form' = [ form EXCEPT !.mfaMethod = enforcedMfaMethod(form.userType) ]
            /\ UNCHANGED elapsed
       ELSE /\ form' = [ OtpCleared(form) EXCEPT
                           !.mfaMethod = IF value = "sms" THEN "sms" ELSE "totp",
                           !.otpCode = << >>,
                           !.phoneError = IF value = "sms" THEN @ ELSE "" ]
            /\ elapsed' = Null
    /\ UNCHANGED << mounted, hook, reg, failedChecks, serverVars >>

\* the phone field is rendered for the sms method only
handlePhoneChange(value) ==
    /\ mounted = "LoginForm"
    /\ LoginView = "MFA"
    /\ form.mfaMethod = "sms"
    /\ form' = [ (IF form.otpSent THEN OtpCleared(form) ELSE form) EXCEPT
                   !.phoneNumber = PhoneDigits[value],
                   !.phoneError = "" ]
    /\ elapsed' = IF form.otpSent THEN Null ELSE elapsed
    /\ UNCHANGED << mounted, hook, reg, failedChecks, serverVars >>

\* the button is rendered for the sms method and disabled while otpCountdown > 0
handleSendOtp ==
    /\ mounted = "LoginForm"
    /\ LoginView = "MFA"
    /\ form.mfaMethod = "sms"
    /\ form.otpCountdown = 0
    /\ IF Len(form.phoneNumber) < MinPhoneDigits
       THEN /\ form' = [ form EXCEPT
                           !.phoneError = "Enter a valid phone number (10-15 digits).",
                           !.toast = "Phone number required" ]
            /\ UNCHANGED elapsed
       ELSE /\ form' = startOtpCountdown([ form EXCEPT !.phoneError = "",
                                                       !.otpSent = TRUE,
                                                       !.otpCode = << >>,
                                                       !.toast = "OTP Sent" ])
            /\ elapsed' = 0
    /\ UNCHANGED << mounted, hook, reg, failedChecks, serverVars >>

\* onChange of the code field: setOtpCode(e.target.value.replace(/\D/g, ""))
handleOtpInput(value) ==
    /\ mounted = "LoginForm"
    /\ LoginView = "MFA"
    /\ form' = [ form EXCEPT !.otpCode = TypedDigits[value] ]
    /\ UNCHANGED << mounted, hook, elapsed, reg, failedChecks, serverVars >>

handleMFAVerify ==
    /\ mounted = "LoginForm"
    /\ LoginView = "MFA"
    /\ IF form.mfaMethod = "sms" /\ Len(form.phoneNumber) < MinPhoneDigits
       THEN /\ form' = [ form EXCEPT
                           !.phoneError = "Enter a valid phone number (10-15 digits).",
                           !.toast = "Phone number required" ]
            /\ UNCHANGED elapsed
       ELSE IF form.mfaMethod = "sms" /\ ~form.otpSent
       THEN /\ form' = [ form EXCEPT !.toast = "Send OTP" ]
            /\ UNCHANGED elapsed
       ELSE IF form.mfaMethod = "sms" /\ form.otpCountdown = 0
       THEN /\ form' = [ form EXCEPT !.toast = "OTP Expired" ]
            /\ UNCHANGED elapsed
       ELSE IF Len(form.otpCode) = OTP_LENGTH
       THEN /\ form' = [ OtpCleared(form) EXCEPT !.toast = "Authentication Successful" ]
            /\ elapsed' = Null
       ELSE /\ form' = [ form EXCEPT !.toast = "Invalid OTP" ]
            /\ UNCHANGED elapsed
    /\ UNCHANGED << mounted, hook, reg, failedChecks, serverVars >>

(* ---- one second passes: the intervals that are set fire ---- *)
Second ==
    /\ elapsed # Null
    /\ elapsed < MaxElapsed
    /\ elapsed' = elapsed + 1
    /\ hook' = TimerFired(hook, hook.intervals)
    /\ form' = OtpTimerFired(form, form.intervals)
    /\ UNCHANGED << mounted, reg, failedChecks, serverVars >>

(***************************************************************************)
(* Client: LoginForm, steps 1 and 2 and the lock                           *)
(***************************************************************************)
\* validateEmailForRole(value, config): the message it sets and returns
\* ("" : null)
validateEmailForRole(value, role) ==
    LET candidate == EmailCandidate[value]
    IN  IF candidate = << >>
        THEN IF emailErrorMessage(role) # "" THEN emailErrorMessage(role)
             ELSE "Official defence email required."
        ELSE IF HasEmailWhitelist(role) /\ candidate \notin auditorWhitelist
        THEN "Email not listed in the approved roster."
        ELSE IF HasEmailPattern(role) /\ ~EmailMatches[role][candidate]
        THEN IF emailErrorMessage(role) # "" THEN emailErrorMessage(role)
             ELSE "Please use the required official email domain."
        ELSE ""

\* the effect on [mfaMethod]: a method other than sms clears the OTP timer
MethodEffect(f) == IF f.mfaMethod # "sms" THEN OtpCleared(f) ELSE f

\* handleRoleChange without the resets of the credential and the address
handleRoleChangeKeepingIdentity(value) ==
    /\ mounted = "LoginForm"
    /\ LoginView = "Credentials"
    /\ form' = MethodEffect(
                 [ form EXCEPT !.userType = value,
                               !.passwordError = "",
                               !.phoneNumber = << >>, !.phoneError = "",
                               !.mfaMethod = IF enforcedMfaMethod(value) # ""
                                             THEN enforcedMfaMethod(value)
                                             ELSE "totp" ])
    /\ elapsed' = Null
    /\ UNCHANGED << mounted, hook, reg, failedChecks, serverVars >>

handleRoleChange(value) ==
    /\ mounted = "LoginForm"
    /\ LoginView = "Credentials"
    /\ form' = MethodEffect(
                 [ form EXCEPT !.userType = value, !.serviceId = << >>,
                               !.serviceIdError = "", !.email = << >>,
                               !.emailError = "", !.passwordError = "",
                               !.phoneNumber = << >>, !.phoneError = "",
                               !.mfaMethod = IF enforcedMfaMethod(value) # ""
                                             THEN enforcedMfaMethod(value)
                                             ELSE "totp" ])
    /\ elapsed' = Null
    /\ UNCHANGED << mounted, hook, reg, failedChecks, serverVars >>

handleServiceIdChange(rawValue) ==
    /\ mounted = "LoginForm"
    /\ LoginView = "Credentials"
    /\ showServiceIdField(form.userType)
    /\ form' = [ form EXCEPT !.serviceId = NormalizedId[form.userType][rawValue],
                             !.serviceIdError = "" ]
    /\ UNCHANGED << mounted, hook, elapsed, reg, failedChecks, serverVars >>

handleEmailChange(rawValue) ==
    /\ mounted = "LoginForm"
    /\ LoginView = "Credentials"
    /\ requiresEmailEntry(form.userType)
    /\ form' = [ form EXCEPT !.email = rawValue, !.emailError = "" ]
    /\ UNCHANGED << mounted, hook, elapsed, reg, failedChecks, serverVars >>

handlePasswordChange(value) ==
    /\ mounted = "LoginForm"
    /\ LoginView = "Password"
    /\ form' = [ form EXCEPT !.password = value, !.passwordError = "" ]
    /\ UNCHANGED << mounted, hook, elapsed, reg, failedChecks, serverVars >>

\* the part handleCredentialsSubmit and handleLogin share: the credential and
\* the email are normalised, stored and validated; toast "" : both passed
CredentialsChecked(f, idToast, emailToast) ==
    LET role == f.userType
        normalizedId == NormalizedId[role][f.serviceId]
        withId == IF showServiceIdField(role)
                  THEN [ f EXCEPT !.serviceId = normalizedId ] ELSE f
        normalizedEmail == EmailCandidate[f.email]
        emailMessage == validateEmailForRole(normalizedEmail, role)
    IN  IF showServiceIdField(role) /\ ~IdMatches[role][normalizedId]
        THEN [ withId EXCEPT !.serviceIdError = idValidationMessage(role),
                             !.toast = idToast ]
        ELSE LET idOk == IF showServiceIdField(role)
                         THEN [ withId EXCEPT !.serviceIdError = "" ] ELSE withId
             IN  IF ~requiresEmailEntry(role) THEN [ idOk EXCEPT !.toast = "" ]
                 ELSE IF emailMessage # ""
                 THEN [ idOk EXCEPT !.email = normalizedEmail,
                                    !.emailError = emailMessage,
                                    !.toast = emailToast ]
                 ELSE [ idOk EXCEPT !.email = normalizedEmail, !.emailError = "",
                                    !.toast = "" ]

handleCredentialsSubmit ==
    /\ mounted = "LoginForm"
    /\ LoginView = "Credentials"
    /\ IF form.userType = ""
       THEN form' = [ form EXCEPT !.toast = "Select Your Role" ]
       ELSE IF showServiceIdField(form.userType)
               /\ NormalizedId[form.userType][form.serviceId] = << >>
       THEN form' = [ form EXCEPT !.serviceId = << >>,
                                  !.serviceIdError = "Provide your credential to proceed.",
                                  !.toast = "Credential Required" ]
       ELSE LET f == CredentialsChecked(form, "Check your credentials",
                                        "Resolve Email Requirement")
            IN  IF f.toast # "" THEN form' = f
                ELSE form' = [ f EXCEPT !.toast = "Credentials Recorded",
                                        !.currentStep = 2 ]
    /\ UNCHANGED << mounted, hook, elapsed, reg, failedChecks, serverVars >>

\* the account a password check of the form is made for
AccountOf(f) == [ role |-> f.userType, serviceId |-> f.serviceId, email |-> f.email ]

\* handleLogin with the attempts remaining computed from the counter as it
\* was before the attempt
handleLoginStaleCount(loginSuccess) ==
    /\ mounted = "LoginForm"
    /\ LoginView = "Password"
    /\ IF \/ form.userType = ""
          \/ showServiceIdField(form.userType) /\ form.serviceId = << >>
          \/ requiresEmailEntry(form.userType) /\ EmailCandidate[form.email] = << >>
          \/ form.password = << >>
       THEN /\ form' = [ form EXCEPT !.toast = "Missing Information" ]
            /\ UNCHANGED << elapsed, failedChecks >>
       ELSE LET f == CredentialsChecked(form, "Credential Validation Failed",
                                        "Email Validation Failed")
            IN  IF f.toast # ""
                THEN /\ form' = f
                     /\ UNCHANGED << elapsed, failedChecks >>
                ELSE IF ~PasswordPolicyOk[form.password]
                THEN /\ form' = [ f EXCEPT
                          !.passwordError = "Minimum 12 characters, at least one uppercase letter, one number, and one special character.",
                          !.toast = "Password Policy Enforcement" ]
                     /\ UNCHANGED << elapsed, failedChecks >>
                ELSE IF HasPasswordPolicy(form.userType) /\ ~RolePasswordOk[form.password]
                THEN /\ form' = [ f EXCEPT
                          !.passwordError = "Passwords must be at least 12 characters with a special character for admin access.",
                          !.toast = "Password Policy Enforcement" ]
                     /\ UNCHANGED << elapsed, failedChecks >>
                ELSE IF loginSuccess
                THEN /\ form' = [ OtpCleared(f) EXCEPT !.passwordError = "",
                                                       !.currentStep = 3,
                                                       !.otpCode = << >>,
                                                       !.toast = "Credentials Verified" ]
                     /\ elapsed' = Null
                     /\ UNCHANGED failedChecks
                ELSE /\ form' = [ f EXCEPT
                          !.passwordError = "",
                          !.failedAttempts = @ + 1,
                          !.isLocked = IF form.failedAttempts + 1 >= LockThreshold
                                       THEN TRUE ELSE @,
                          !.toast = IF form.failedAttempts + 1 >= LockThreshold
                                    THEN "Account Locked" ELSE "Login Failed",
                          !.remaining = IF form.failedAttempts + 1 >= LockThreshold
                                        THEN @
                                        ELSE LockThreshold - form.failedAttempts ]
                     /\ failedChecks' = Append(failedChecks, AccountOf(f))
                     /\ UNCHANGED elapsed
    /\ UNCHANGED << mounted, hook, reg, serverVars >>


\* loginSuccess is Math.random() > 0.3: either outcome
handleLogin(loginSuccess) ==
    /\ mounted = "LoginForm"
    /\ LoginView = "Password"
    /\ IF \/ form.userType = ""
          \/ showServiceIdField(form.userType) /\ form.serviceId = << >>
          \/ requiresEmailEntry(form.userType) /\ EmailCandidate[form.email] = << >>
          \/ form.password = << >>
       THEN /\ form' = [ form EXCEPT !.toast = "Missing Information" ]
            /\ UNCHANGED << elapsed, failedChecks >>
       ELSE LET f == CredentialsChecked(form, "Credential Validation Failed",
                                        "Email Validation Failed")
            IN  IF f.toast # ""
                THEN /\ form' = f
                     /\ UNCHANGED << elapsed, failedChecks >>
                ELSE IF ~PasswordPolicyOk[form.password]
                THEN /\ form' = [ f EXCEPT
                          !.passwordError = "Minimum 12 characters, at least one uppercase letter, one number, and one special character.",
                          !.toast = "Password Policy Enforcement" ]
                     /\ UNCHANGED << elapsed, failedChecks >>
                ELSE IF HasPasswordPolicy(form.userType) /\ ~RolePasswordOk[form.password]
                THEN /\ form' = [ f EXCEPT
                          !.passwordError = "Passwords must be at least 12 characters with a special character for admin access.",
                          !.toast = "Password Policy Enforcement" ]
                     /\ UNCHANGED << elapsed, failedChecks >>
                ELSE IF loginSuccess
                THEN /\ form' = [ OtpCleared(f) EXCEPT !.passwordError = "",
                                                       !.currentStep = 3,
                                                       !.otpCode = << >>,
                                                       !.toast = "Credentials Verified" ]
                     /\ elapsed' = Null
                     /\ UNCHANGED failedChecks
                ELSE /\ form' = [ f EXCEPT
                          !.passwordError = "",
                          !.failedAttempts = @ + 1,
                          !.isLocked = IF form.failedAttempts + 1 >= LockThreshold
                                       THEN TRUE ELSE @,
                          !.toast = IF form.failedAttempts + 1 >= LockThreshold
                                    THEN "Account Locked" ELSE "Login Failed",
                          !.remaining = IF form.failedAttempts + 1 >= LockThreshold
                                        THEN @
                                        ELSE LockThreshold - (form.failedAttempts + 1) ]
                     /\ failedChecks' = Append(failedChecks, AccountOf(f))
                     /\ UNCHANGED elapsed
    /\ UNCHANGED << mounted, hook, reg, serverVars >>

\* the Back buttons of steps 2 and 3
LoginForm_back ==
    /\ mounted = "LoginForm"
    /\ LoginView \in { "Password", "MFA" }
    /\ form' = [ form EXCEPT !.currentStep = @ - 1 ]
    /\ UNCHANGED << mounted, hook, elapsed, reg, failedChecks, serverVars >>

(***************************************************************************)
(* Client: RegisterForm, the registration wizard                           *)
(***************************************************************************)
\* what the component renders
RegisterView ==
    IF reg.isSubmitted /\ ~reg.isVerified /\ reg.emailError = ""
    THEN "Verification in Progress"
    ELSE IF reg.isSubmitted /\ ~reg.isVerified /\ reg.emailError # ""
    THEN "Manual Review Required"
    ELSE IF reg.showMFASetup THEN "MFA Setup"
    ELSE CASE reg.currentStep = 1 -> "Identity"
           [] reg.currentStep = 2 -> "Service"
           [] reg.currentStep = 3 -> "Security"
           [] reg.currentStep = 4 -> "Activate"

\* evaluateEmailAgainstRole(config, providedEmail, roleKey): the messages it sets
\* the same with the pattern tested before the roster
evaluateEmailPatternFirst(role, providedEmail) ==
    LET candidate == EmailCandidate[providedEmail]
        none == [ emailError |-> "", emailWarning |-> "" ]
    IN  IF role = "" THEN none
        ELSE IF candidate = << >> THEN none
        ELSE IF requiresDefenceEmail(role) /\ HasEmailPattern(role)
                /\ ~EmailMatches[role][candidate]
        THEN [ none EXCEPT !.emailError = emailErrorMessage(role) ]
        ELSE IF HasEmailWhitelist(role) /\ candidate \notin auditorWhitelist
        THEN [ none EXCEPT !.emailError = "Email not listed in the approved roster." ]
        ELSE IF HasEmailPattern(role) /\ ~EmailMatches[role][candidate]
        THEN [ none EXCEPT !.emailWarning = emailWarningMessage(role) ]
        ELSE IF role = "family" /\ ~IsDefenceEmail[candidate]
        THEN [ none EXCEPT !.emailWarning = emailWarningMessage(role) ]
        ELSE none

evaluateEmailAgainstRole(role, providedEmail) ==
    LET candidate == EmailCandidate[providedEmail]
        none == [ emailError |-> "", emailWarning |-> "" ]
    IN  IF role = "" THEN none
        ELSE IF candidate = << >> THEN none
        ELSE IF HasEmailWhitelist(role) /\ candidate \notin auditorWhitelist
        THEN [ none EXCEPT !.emailError = "Email not listed in the approved roster." ]
        ELSE IF requiresDefenceEmail(role) /\ HasEmailPattern(role)
                /\ ~EmailMatches[role][candidate]
        THEN [ none EXCEPT !.emailError = emailErrorMessage(role) ]
        ELSE IF HasEmailPattern(role) /\ ~EmailMatches[role][candidate]
        THEN [ none EXCEPT !.emailWarning = emailWarningMessage(role) ]
        ELSE IF role = "family" /\ ~IsDefenceEmail[candidate]
        THEN [ none EXCEPT !.emailWarning = emailWarningMessage(role) ]
        ELSE none

\* validateServiceId of RegisterForm: the message it returns ("" : null)
RegisterForm_validateServiceId(value, role) ==
    IF value = << >> THEN "Provide your credential."
    ELSE IF ~IdMatches[role][value] THEN idValidationMessage(role)
    ELSE IF inputType(role) = "email" /\ HasEmailWhitelist(role)
            /\ value \notin auditorWhitelist
    THEN "Email not listed in the approved roster."
    ELSE IF inputType(role) = "email" /\ HasEmailPattern(role)
            /\ ~EmailMatches[role][value]
    THEN emailErrorMessage(role)
    ELSE ""

\* the effect on [enforcedMfaMethod, mfaMethod]
RegisterForm_enforce(r) ==
    IF enforcedMfaMethod(r.userType) # "" /\ r.mfaMethod # enforcedMfaMethod(r.userType)
    THEN [ r EXCEPT !.mfaMethod = enforcedMfaMethod(r.userType) ]
    ELSE r

setFullName(value) ==
    /\ mounted = "RegisterForm"
    /\ RegisterView = "Identity"
    /\ reg' = [ reg EXCEPT !.fullName = value ]
    /\ UNCHANGED << mounted, hook, form, elapsed, failedChecks, serverVars >>

\* onChange of the mobile field: setMobile(e.target.value.replace(/\D/g, ""))
setMobile(value) ==
    /\ mounted = "RegisterForm"
    /\ RegisterView = "Identity"
    /\ reg' = [ reg EXCEPT !.mobile = MobileDigits[value] ]
    /\ UNCHANGED << mounted, hook, form, elapsed, failedChecks, serverVars >>

RegisterForm_handleEmailChange(value) ==
    /\ mounted = "RegisterForm"
    /\ RegisterView = "Identity"
    /\ LET m == evaluateEmailAgainstRole(reg.userType, value)
       IN  reg' = [ reg EXCEPT !.email = value, !.emailError = m.emailError,
                               !.emailWarning = m.emailWarning ]
    /\ UNCHANGED << mounted, hook, form, elapsed, failedChecks, serverVars >>

RegisterForm_handleRoleChange(value) ==
    /\ mounted = "RegisterForm"
    /\ RegisterView = "Service"
    /\ LET m == evaluateEmailAgainstRole(value, reg.email)
       IN  reg' = RegisterForm_enforce(
                    [ reg EXCEPT !.userType = value, !.serviceId = << >>,
                                 !.serviceIdError = "",
                                 !.emailError = m.emailError,
                                 !.emailWarning = m.emailWarning,
                                 !.mfaMethod = IF enforcedMfaMethod(value) # ""
                                               THEN enforcedMfaMethod(value)
                                               ELSE "totp" ])
    /\ UNCHANGED << mounted, hook, form, elapsed, failedChecks, serverVars >>

RegisterForm_handleServiceIdChange(rawValue) ==
    /\ mounted = "RegisterForm"
    /\ RegisterView = "Service"
    /\ reg' = [ reg EXCEPT !.serviceId = NormalizedId[reg.userType][rawValue],
                           !.serviceIdError = "" ]
    /\ UNCHANGED << mounted, hook, form, elapsed, failedChecks, serverVars >>

RegisterForm_handleMfaMethodChange(value) ==
    /\ mounted = "RegisterForm"
    /\ RegisterView = "Security"
    \* the sms radio is disabled for a role with an enforced method
    /\ ~(value = "sms" /\ enforcedMfaMethod(reg.userType) = "totp")
    /\ reg' = RegisterForm_enforce(
                [ reg EXCEPT !.mfaMethod =
                    IF enforcedMfaMethod(reg.userType) # ""
                    THEN enforcedMfaMethod(reg.userType)
                    ELSE IF value = "sms" THEN "sms" ELSE "totp" ])
    /\ UNCHANGED << mounted, hook, form, elapsed, failedChecks, serverVars >>

setAgreedToTerms(checked) ==
    /\ mounted = "RegisterForm"
    /\ RegisterView = "Security"
    /\ reg' = [ reg EXCEPT !.agreedToTerms = checked ]
    /\ UNCHANGED << mounted, hook, form, elapsed, failedChecks, serverVars >>

handleIdentityStep ==
    /\ mounted = "RegisterForm"
    /\ RegisterView = "Identity"
    /\ IF reg.fullName = << >> \/ reg.email = << >> \/ reg.mobile = << >>
       THEN reg' = [ reg EXCEPT !.toast = "Details Needed" ]
       ELSE IF Len(reg.mobile) < MinPhoneDigits \/ Len(reg.mobile) > MaxPhoneDigits
       THEN reg' = [ reg EXCEPT !.toast = "Invalid Mobile Number" ]
       ELSE reg' = [ reg EXCEPT !.toast = "Identity Confirmed", !.currentStep = 2 ]
    /\ UNCHANGED << mounted, hook, form, elapsed, failedChecks, serverVars >>

handleServiceStep ==
    /\ mounted = "RegisterForm"
    /\ RegisterView = "Service"
    /\ IF reg.userType = ""
       THEN reg' = [ reg EXCEPT !.toast = "Select Your Role" ]
       ELSE LET normalizedId == NormalizedId[reg.userType][reg.serviceId]
                message == RegisterForm_validateServiceId(normalizedId, reg.userType)
                r == [ reg EXCEPT !.serviceId = normalizedId, !.serviceIdError = message ]
            IN  IF message # ""
                THEN reg' = [ r EXCEPT !.toast = "Check your credentials" ]
                ELSE IF reg.emailError # ""
                THEN reg' = [ r EXCEPT !.toast = "Resolve Email Requirement" ]
                ELSE reg' = [ r EXCEPT !.toast = "Service Details Saved",
                                       !.currentStep = 3 ]
    /\ UNCHANGED << mounted, hook, form, elapsed, failedChecks, serverVars >>

\* the Back buttons of steps 2 and 3
RegisterForm_back ==
    /\ mounted = "RegisterForm"
    /\ RegisterView \in { "Service", "Security" }
    /\ reg' = [ reg EXCEPT !.currentStep = @ - 1 ]
    /\ UNCHANGED << mounted, hook, form, elapsed, failedChecks, serverVars >>

handleSubmit ==
    /\ mounted = "RegisterForm"
    /\ RegisterView = "Security"
    /\ IF ~reg.agreedToTerms
       THEN reg' = [ reg EXCEPT !.toast = "Accept Terms" ]
       ELSE reg' = [ reg EXCEPT !.isSubmitted = TRUE, !.currentStep = 4,
                                !.timeout = TRUE ]
    /\ UNCHANGED << mounted, hook, form, elapsed, failedChecks, serverVars >>

\* the callback handleSubmit hands to setTimeout
verificationTimeout ==
    /\ mounted = "RegisterForm"
    /\ reg.timeout
    /\ LET isDefenceEmail == IsDefenceEmail[reg.email]
       IN  reg' = [ reg EXCEPT !.timeout = FALSE,
                               !.isVerified = isDefenceEmail,
                               !.showMFASetup = IF isDefenceEmail THEN TRUE ELSE @,
                               !.toast = IF isDefenceEmail
                                         THEN "Verification Successful"
                                         ELSE "Manual Review Required" ]
    /\ UNCHANGED << mounted, hook, form, elapsed, failedChecks, serverVars >>

\* the button of the MFA setup view
completeSetup ==
    /\ mounted = "RegisterForm"
    /\ RegisterView = "MFA Setup"
    /\ reg' = [ reg EXCEPT !.toast = "MFA Setup Complete" ]
    /\ UNCHANGED << mounted, hook, form, elapsed, failedChecks, serverVars >>

(***************************************************************************)
(* Specifications                                                          *)
(*   Spec      : the login lifecycle: registration, activation, email      *)
(*               verification, login and MFA, served within one minute     *)
(*   SpecLookup : the same without verify-mfa                              *)
(*   SpecRegistry : registration and login for people who give the same    *)
(*               credential id                                             *)
(*   SpecSession : a session from verify-mfa to a protected route          *)
(*   SpecToken : the verification-token lifecycle of one address against   *)
(*               the clock, with two handlers of verify-email in flight    *)
(*   SpecIssue : the same, with the handlers of send-verification and      *)
(*               resend-verification in flight too                         *)
(*   SpecAccount      : every route that reads or writes the account of    *)
(*               one address, against a short clock                        *)
(*   SpecOtp          : the one-time-code hook under the MFA step           *)
(*   SpecRegisterForm : the registration wizard and its timer              *)
(*   SpecLoginForm    : the login wizard, all three steps                  *)
(*   SpecWizards      : both wizards, with no code sent                    *)
(***************************************************************************)
\* no client component is on the page
Unmounted ==
    /\ mounted = "none"
    /\ hook = HookInit
    /\ form = FormInit("personnel")
    /\ elapsed = Null
    /\ reg = RegInit
    /\ failedChecks = << >>

Init == ServerInit /\ Unmounted

Next ==
    \/ \E q \in RegisterRequests : Register(q)
    \/ \E q \in LoginRequests : Login(q)
    \/ \E u \in UserIds, c \in Codes, m \in MfaMethods : VerifyMfa(u, c, m)
    \/ \E t \in Tokens : VerifyEmailFind(1, t)
    \/ VerifyEmailSave(1)
    \/ \E u \in UserIds : AdminActivate(u)

Spec == Init /\ [][Next]_vars

\* the routes up to the answer of /login: how an identity is resolved
NextLookup ==
    \/ \E q \in RegisterRequests : Register(q)
    \/ \E q \in LoginRequests : Login(q)
    \/ \E t \in Tokens : VerifyEmailFind(1, t)
    \/ VerifyEmailSave(1)
    \/ \E u \in UserIds : AdminActivate(u)

SpecLookup == Init /\ [][NextLookup]_vars

\* registration and login for people who give the same credential id
RegistryLogins == { q \in LoginRequests : q.identifier = ID_UPPER }

NextRegistry ==
    \/ \E q \in RegistryRequests : Register(q)
    \/ \E q \in RegistryLogins : Login(q)
    \/ \E u \in UserIds : AdminActivate(u)

SpecRegistry == Init /\ [][NextRegistry]_vars

\* a session from its issue to its use on a protected route
NextSession ==
    \/ \E q \in AccountRegisterRequests : Register(q)
    \/ \E u \in UserIds, m \in MfaMethods : VerifyMfa(u, "expected", m)
    \/ \E u \in UserIds : AdminActivate(u)
    \/ \E bearer \in Held : verifyToken(bearer)
    \/ Tick
    \/ \E u \in UserIds : TtlExpire(u)

SpecSession == Init /\ [][NextSession]_vars

TokenRegisterRequests == { q \in RegisterRequests : q.email = E_ARMY /\ q.role = "personnel" }

NextToken ==
    \/ \E q \in TokenRegisterRequests : Register(q)
    \/ \E purpose \in { "registration", "login" } : SendVerification(E_ARMY, purpose)
    \/ ResendVerification(E_ARMY)
    \/ \E p \in Procs, t \in Tokens : VerifyEmailFind(p, t)
    \/ \E p \in Procs : VerifyEmailSave(p)
    \/ Tick
    \/ \E u \in UserIds : TtlExpire(u)

SpecToken == Init /\ [][NextToken]_vars

\* the same address with two handlers of each verification route in flight
NextIssue ==
    \/ \E q \in TokenRegisterRequests : Register(q)
    \/ \E p \in Procs, purpose \in { "registration", "login" } :
          SendVerificationFind(p, E_ARMY, purpose)
    \/ \E p \in Procs : ResendVerificationFind(p, E_ARMY)
    \/ \E p \in Procs : VerificationSave(p)
    \/ \E p \in Procs, t \in Tokens : VerifyEmailFind(p, t)
    \/ \E p \in Procs : VerifyEmailSave(p)
    \/ Tick

SpecIssue == Init /\ [][NextIssue]_vars

(***************************************************************************)
(* The operations on a stored account: registration, login, verify-mfa,    *)
(* the two verification-email routes, verify-email, activation, the clock  *)
(***************************************************************************)
AccountLoginRequests ==
    { q \in LoginRequests : q.identifier = E_ARMY /\ q.role = "personnel" }
        \cup UnknownRoleLogins

\* the clock, as far as both rate limits take to lapse
AccountHorizon == 5

AccountTick == now < AccountHorizon /\ Tick

NextAccount ==
    \/ \E q \in AccountRegisterRequests : Register(q)
    \/ \E q \in AccountLoginRequests : Login(q)
    \/ \E u \in UserIds, m \in MfaMethods : VerifyMfa(u, "expected", m)
    \/ \E purpose \in { "registration", "login" } : SendVerification(E_ARMY, purpose)
    \/ ResendVerification(E_ARMY)
    \/ \E t \in Tokens : VerifyEmailFind(1, t)
    \/ VerifyEmailSave(1)
    \/ \E u \in UserIds : AdminActivate(u)
    \/ AccountTick

SpecAccount == Init /\ [][NextAccount]_vars

NextOtp ==
    \/ \E v \in TypedCodes : setOtpCode(v)
    \/ \E e \in { << >>, E_ARMY } : sendOtp(e)
    \/ verifyOtp
    \/ resetOtp
    \/ \E m \in { "totp", "sms" } : handleMfaMethodChange(m)
    \/ \E v \in TypedPhones : handlePhoneChange(v)
    \/ handleSendOtp
    \/ \E v \in TypedCodes : handleOtpInput(v)
    \/ handleMFAVerify
    \/ Second

InitOtp == ServerInit /\ ClientInit

SpecOtp == InitOtp /\ [][NextOtp]_vars

\* RegisterForm is on the page; the timer of handleSubmit fires once it is set
NextRegisterForm ==
    \/ \E v \in TypedNames : setFullName(v)
    \/ \E v \in TypedPhones : setMobile(v)
    \/ \E v \in TypedEmails : RegisterForm_handleEmailChange(v)
    \/ \E r \in WizardRoles : RegisterForm_handleRoleChange(r)
    \/ \E v \in TypedIds : RegisterForm_handleServiceIdChange(v)
    \/ \E m \in { "totp", "sms" } : RegisterForm_handleMfaMethodChange(m)
    \/ \E c \in BOOLEAN : setAgreedToTerms(c)
    \/ handleIdentityStep
    \/ handleServiceStep
    \/ RegisterForm_back
    \/ handleSubmit
    \/ verificationTimeout
    \/ completeSetup

InitRegisterForm ==
    /\ ServerInit
    /\ mounted = "RegisterForm"
    /\ hook = HookInit
    /\ form = FormInit("personnel")
    /\ elapsed = Null
    /\ reg = RegInit
    /\ failedChecks = << >>

SpecRegisterForm ==
    InitRegisterForm /\ [][NextRegisterForm]_vars /\ WF_vars(verificationTimeout)

\* what the user of LoginForm chooses and types in SpecLoginForm
LoginFormRoles == { "personnel", "family", "admin" }

LoginFormIds == { ID_SPACED, ID_FAMILY }

LoginFormEmails == { E_ARMY, E_MOD }

LoginFormPasswords == { P_GOOD, P_TILDE, P_WEAK }

LoginFormPhones == { <<"+","9","1"," ","9","8","7","6","5","4","3","2","1","0">> }

LoginFormCodes == { DeliveredCode, <<"4","8","a","9">> }

\* LoginForm is on the page, from its first step on
NextLoginForm ==
    \/ \E r \in LoginFormRoles : handleRoleChange(r)
    \/ \E v \in LoginFormIds : handleServiceIdChange(v)
    \/ \E v \in LoginFormEmails : handleEmailChange(v)
    \/ \E v \in LoginFormPasswords : handlePasswordChange(v)
    \/ handleCredentialsSubmit
    \/ \E loginSuccess \in BOOLEAN : handleLogin(loginSuccess)
    \/ LoginForm_back
    \/ \E m \in { "totp", "sms" } : handleMfaMethodChange(m)
    \/ \E v \in LoginFormPhones : handlePhoneChange(v)
    \/ handleSendOtp
    \/ \E v \in LoginFormCodes : handleOtpInput(v)
    \/ handleMFAVerify
    \/ Second

InitLoginForm ==
    /\ ServerInit
    /\ mounted = "LoginForm"
    /\ hook = HookInit
    /\ form = FormInit("")
    /\ elapsed = Null
    /\ reg = RegInit
    /\ failedChecks = << >>

SpecLoginForm == InitLoginForm /\ [][NextLoginForm]_vars /\ WF_vars(Second)

\* either wizard is on the page, from its first step on; no code is sent, so
\* no countdown runs
NextWizards ==
    \/ \E r \in LoginFormRoles : handleRoleChange(r)
    \/ \E v \in LoginFormIds : handleServiceIdChange(v)
    \/ \E v \in LoginFormEmails : handleEmailChange(v)
    \/ \E v \in { P_GOOD, P_TILDE } : handlePasswordChange(v)
    \/ handleCredentialsSubmit
    \/ \E loginSuccess \in BOOLEAN : handleLogin(loginSuccess)
    \/ LoginForm_back
    \/ \E m \in { "totp", "sms" } : handleMfaMethodChange(m)
    \/ \E v \in LoginFormCodes : handleOtpInput(v)
    \/ handleMFAVerify
    \/ NextRegisterForm

InitWizards ==
    /\ ServerInit
    /\ mounted \in { "LoginForm", "RegisterForm" }
    /\ hook = HookInit
    /\ form = FormInit("")
    /\ elapsed = Null
    /\ reg = RegInit
    /\ failedChecks = << >>

SpecWizards == InitWizards /\ [][NextWizards]_vars

(***************************************************************************)
(* Properties                                                              *)
(***************************************************************************)
SessionIssued == last.session # NoSession

\* C1: a VerifyMfa call for an account whose code is wrong or malformed
\* returns InvalidCode and issues no session.
C1_WrongCodeIssuesNoSession ==
    [][ \A u \in UserIds, c \in Codes \ {"expected"}, m \in MfaMethods :
          (u \in Ids /\ VerifyMfa(u, c, m)) =>
             (last'.result = "InvalidCode" /\ last'.session = NoSession) ]_vars

\* C2: a session is issued for an account only after a Login for that same
\* account passed the password check.
C2_SessionOnlyAfterPasswordCheck ==
    SessionIssued => last.session.userId \in passwordPassed

\* C3: once three consecutive password checks have failed for an account,
\* every further login attempt for it returns AccountLocked (and compares no
\* hash).
C3_LockedAfterThreeFailures ==
    [][ \A q \in LoginRequests, u \in UserIds :
          (/\ FindForLogin(q.identifier, q.role) = {u}
           /\ failStreak[u] >= LockThreshold
           /\ Login(q)) =>
             (last'.result = "AccountLocked" /\ UNCHANGED << failStreak, passwordPassed >>) ]_vars

\* C4: no session is ever issued for an account whose emailVerified flag is
\* false.
C4_NoSessionWhileEmailUnverified ==
    (SessionIssued /\ last.session.userId \in Ids) =>
        users[last.session.userId].emailVerified

\* C5: Login has no outcome other than mfaRequired, InvalidCredentials,
\* AccountLocked and EmailNotVerified, and for a registered account whose
\* verification token was consumed and which is not locked, a Login with the
\* right role, identity and password returns mfaRequired with the stored
\* method.
C5_LoginOutcomes ==
    [][ \A q \in LoginRequests :
          (LoginValid[q] /\ Login(q)) =>
             /\ last'.result \in { "MfaRequired", "InvalidCredentials",
                                   "AccountLocked", "EmailNotVerified" }
             /\ \A u \in UserIds :
                  (/\ FindForLogin(q.identifier, q.role) = {u}
                   /\ users[u].emailVerified
                   /\ failStreak[u] < LockThreshold
                   /\ users[u].passwordHash = PasswordHashes[q.password]) =>
                     (/\ last'.result = "MfaRequired"
                      /\ last'.mfaMethod = users[u].authMethod) ]_vars

Consumed(t) == verifyOk[t] > 0

Expired(t) == t \in expired

\* C6: a verification token that was consumed, or whose expiry has passed,
\* matches no account any more, and every later verify-email request with it
\* returns InvalidOrExpired and leaves the accounts unchanged.
C6_SpentTokenNeverAuthorizes ==
    /\ [](\A t \in Tokens : (Consumed(t) \/ Expired(t)) => FindByToken(t) = {})
    /\ [][ \A p \in Procs, t \in Tokens :
             ((Consumed(t) \/ Expired(t)) /\ VerifyEmailFind(p, t)) =>
                (/\ last'.result = "InvalidOrExpired"
                 /\ last'.token = t
                 /\ pc'[p] = "idle"
                 /\ users' = users) ]_vars

C6_Witness ==
    /\ last.route = "verify-email"
    /\ last.result = "InvalidOrExpired"
    /\ last.token \in Tokens
    /\ Consumed(last.token)

\* C7: of the verify-email requests that carry the same valid token and are
\* processed concurrently, at most one reports success.
C7_AtMostOneConsumer == \A t \in Tokens : verifyOk[t] <= 1

Live == elapsed # Null /\ elapsed < OTP_EXPIRY_SECONDS

Over == elapsed # Null /\ elapsed >= OTP_EXPIRY_SECONDS

\* C8: a delivered code sent at T is accepted when the code delivered is
\* entered less than 60 seconds after T; from T + 60 s on every attempt,
\* whatever the code, fails as expired and never as an invalid code.
C8_ExpiredTakesPrecedence ==
    [][ /\ (hook.otpSent /\ verifyOtp) =>
             /\ (Live /\ hook.otpCode = DeliveredCode) => hook'.returned = "true"
             /\ Over => /\ hook'.returned = "false"
                        /\ hook'.otpError = "OTP has expired. Please request a new one."
        /\ (form.mfaMethod = "sms" /\ form.otpSent /\ handleMFAVerify) =>
             /\ (Live /\ form.otpCode = DeliveredCode) =>
                   form'.toast = "Authentication Successful"
             /\ Over => form'.toast = "OTP Expired" ]_vars

C8_Witness ==
    /\ mounted = "useEmailOtp"
    /\ elapsed = OTP_EXPIRY_SECONDS + 1
    /\ hook.otpSent
    /\ hook.otpCode = DeliveredCode
    /\ hook.returned = "false"
    /\ hook.otpError = "OTP has expired. Please request a new one."

\* C9: for an account of a role that enforces the authenticator method, a
\* VerifyMfa request that names the delivered-code method yields no session.
C9_EnforcedMethodRejectsDeliveredCode ==
    [][ \A u \in UserIds, c \in Codes :
          (/\ u \in Ids
           /\ enforcedMfaMethod(users[u].role) = "totp"
           /\ VerifyMfa(u, c, "email")) =>
             last'.session = NoSession ]_vars

\* C10: a registration whose email does not match the defence domain rule
\* ends in PendingManualReview, and no verification token is stored or sent
\* for it.
C10_TokenOnlyForDefenceEmail ==
    [][ \A q \in RegisterRequests :
          (/\ RegistrationValid[q]
           /\ FindByEmail(RegistrationBody[q].email) = {}
           /\ ~DefenceEmail[q.email]
           /\ Register(q)) =>
             (/\ last'.result = "PendingManualReview"
              /\ last'.token = Null
              /\ UNCHANGED nextToken) ]_vars

\* C11: every registration that reaches Submitted eventually leaves the
\* 'verification in progress' view and shows its outcome: the MFA setup of a
\* verified registration, or the manual-review view of one that is not.
C11_SubmittedReachesOutcome ==
    reg.isSubmitted ~> (RegisterView \in { "MFA Setup", "Manual Review Required" })

\* what the caller of a route sees of an exchange: everything but the
\* security event logged
Response(x) ==
    [ status |-> x.status, result |-> x.result, userId |-> x.userId,
      mfaMethod |-> x.mfaMethod, totpSecret |-> x.totpSecret,
      session |-> x.session, token |-> x.token ]

InvalidCredentialsResponse == Response(Exchange("login", 401, "InvalidCredentials"))

\* the last exchange is a login that passed validateLogin (no handler of the
\* login lifecycle changes the identities, roles or password hashes stored, so
\* the lookup of that login is the lookup in the state it left)
LoginServed == last.route = "login" /\ LoginValid[last.request]

Resolved == FindForLogin(last.request.identifier, last.request.role)

PasswordMatches(u) == users[u].passwordHash = PasswordHashes[last.request.password]

\* C12: a login for an identity that has no account under the given role is
\* answered exactly as a login for an existing account with a wrong password
\* (401 InvalidCredentials, nothing else in the response); only the security
\* event tells the two apart.
C12_UnknownIdentityLooksLikeWrongPassword ==
    (LoginServed /\ \A u \in Resolved : ~PasswordMatches(u)) =>
        /\ Response(last) = InvalidCredentialsResponse
        /\ last.event = IF Resolved = {} THEN "login_failed:user_not_found"
                        ELSE "login_failed:invalid_password"

\* an account exists and a login for an identity without account was answered
C12_Witness ==
    /\ LoginServed
    /\ Ids # {}
    /\ Resolved = {}
    /\ last.event = "login_failed:user_not_found"

\* the identity of the last login is the email or the credential id of u
IdentityOf(u) ==
    \/ users[u].officialEmail = Lower[last.request.identifier]
    \/ users[u].credentialId = Upper[last.request.identifier]

\* the last login carried the identity and the password of u and another role
RoleMismatch(u) ==
    /\ LoginServed
    /\ IdentityOf(u)
    /\ PasswordMatches(u)
    /\ last.request.role # users[u].role

\* C13 as stated: a login carrying a correct identity and password but a
\* role different from the account's role returns InvalidCredentials and
\* never reaches MfaChallenge for that account.
C13_RoleMismatchReturnsInvalidCredentials ==
    \A u \in Ids :
        RoleMismatch(u) => /\ last.result = "InvalidCredentials"
                           /\ ~(last.result = "MfaRequired" /\ last.userId = u)

\* C13 amended: such a login never resolves that account (no response names
\* it, no MfaChallenge for it), and it returns InvalidCredentials whenever no
\* account of the role given carries the identity; when one does, that other
\* account is the one the login is checked against.
C13_RoleMismatchNeverResolves ==
    \A u \in Ids :
        RoleMismatch(u) => /\ u \notin Resolved
                           /\ last.userId # u
                           /\ Resolved = {} => Response(last) = InvalidCredentialsResponse
                           /\ Resolved # {} => \A v \in Resolved : users[v].role = last.request.role

\* a login with the identity and password of an account and another role was
\* answered InvalidCredentials
C13_Witness ==
    \E u \in Ids :
        /\ RoleMismatch(u)
        /\ Resolved = {}
        /\ last.result = "InvalidCredentials"

\* C14: Register followed by Login round-trips on the identity: a login with
\* the role and password of an account and an identity whose upper-case form
\* (the form the lookup compares) equals that of the credential id the account
\* was registered with resolves that account.
C14_RegisteredIdResolves ==
    \A u \in Ids :
        (/\ LoginServed
         /\ last.request.identifier \in ServiceIds
         /\ Upper[last.request.identifier] = Upper[users[u].credentialId]
         /\ last.request.role = users[u].role
         /\ PasswordMatches(u)) => u \in Resolved

\* the transition of LoginForm that stands for SessionIssued: handleMFAVerify
\* accepting the code
MfaAccepted == handleMFAVerify /\ form'.toast = "Authentication Successful"

\* C15: the failed-attempt counter is zero immediately after SessionIssued,
\* and SessionIssued is the only transition that lowers the counter.
C15_CounterResetBySessionIssuedOnly ==
    [][ /\ MfaAccepted => form'.failedAttempts = 0
        /\ form'.failedAttempts < form.failedAttempts => MfaAccepted ]_vars

\* the failed password checks made for the account a
FailuresOf(a) == Cardinality({ i \in 1..Len(failedChecks) : failedChecks[i] = a })

\* C16: failed-attempt counting is per account: after a failed password check
\* the counter holds the failed checks of that account only, and the form is
\* locked only when that account has reached the threshold itself.
C16_CounterIsPerAccount ==
    failedChecks # << >> =>
        /\ form.failedAttempts = FailuresOf(failedChecks[Len(failedChecks)])
        /\ form.isLocked => FailuresOf(failedChecks[Len(failedChecks)]) >= LockThreshold

\* C17: a lock is temporary: a locked form eventually processes logins again.
C17_LockEnds == form.isLocked ~> ~form.isLocked


\* C18: the authenticator secret leaves the server at most once, in the
\* response to the registration; no response of a later operation (login,
\* verify-mfa, the verification-email routes) carries it.
C18_SecretOnlyInEnrollment ==
    last.route # "register" => last.totpSecret = NoSecret


\* C19: login, verify-mfa, the verification-email routes and verify-email
\* leave the stored MFA method and authenticator secret of every account as
\* registration stored them: no step of the server removes an account or
\* changes either field.
C19_MfaEnrollmentUnchanged ==
    [][ \A u \in Ids :
          /\ u \in DOMAIN users'
          /\ users'[u].authMethod = users[u].authMethod
          /\ users'[u].totpSecret = users[u].totpSecret ]_vars

\* an authenticator account that has passed a password check, confirmed its
\* address and has just been sent a new token
C19_Witness ==
    /\ last.route \in { "send-verification", "resend-verification" }
    /\ last.result = "Sent"
    /\ last.userId \in Ids \cap passwordPassed
    /\ users[last.userId].emailVerified
    /\ users[last.userId].authMethod = "authenticator"
    /\ users[last.userId].totpSecret # NoSecret


\* the account of the address the token lifecycle asks for, and a request
\* answered 429 that wrote nothing
Requested == FindByEmail(Lower[E_ARMY])

WithinInterval(limit) == \E u \in Requested : Throttled(u, limit)

AnsweredThrottled == last'.status = 429 /\ last'.result = "Throttled" /\ users' = users

\* C20 (as stated): a send-verification request less than five minutes, or a
\* resend-verification request less than two minutes, after the account's
\* last-sent timestamp returns Throttled and leaves the stored token, its
\* expiry and the timestamp as they were.
C20_EarlyRequestThrottled ==
    [][ /\ \A purpose \in { "registration", "login" } :
             (WithinInterval(SendRateLimit) /\ SendVerification(E_ARMY, purpose))
                => AnsweredThrottled
        /\ (WithinInterval(ResendRateLimit) /\ ResendVerification(E_ARMY))
                => AnsweredThrottled ]_vars

\* the check for a confirmed address comes before the rate limit
AlreadyVerified(purpose) ==
    \E u \in Requested : users[u].emailVerified /\ purpose = "registration"

AnsweredEarly(purpose) ==
    IF AlreadyVerified(purpose)
    THEN last'.status = 400 /\ last'.result = "AlreadyVerified" /\ users' = users
    ELSE AnsweredThrottled

\* C20 (amended): such a request writes nothing and returns Throttled, unless
\* the address is confirmed and the request is a resend-verification or a
\* send-verification for the purpose of registration: then it returns
\* AlreadyVerified.
C20_EarlyRequestWritesNothing ==
    [][ /\ \A purpose \in { "registration", "login" } :
             (WithinInterval(SendRateLimit) /\ SendVerification(E_ARMY, purpose))
                => AnsweredEarly(purpose)
        /\ (WithinInterval(ResendRateLimit) /\ ResendVerification(E_ARMY))
                => AnsweredEarly("registration") ]_vars

\* a resend refused between the two limits' ends of an unconfirmed account
C20_Witness ==
    /\ last.route = "resend-verification"
    /\ last.result = "Throttled"
    /\ \E u \in Requested :
         /\ ~users[u].emailVerified
         /\ users[u].emailVerificationToken # Null
         /\ now - users[u].lastVerificationEmailSent < ResendRateLimit


\* the address asked for is confirmed
Verified == \E u \in Requested : users[u].emailVerified

\* C21: for an account whose address is confirmed every send-verification
\* request, whatever its purpose, returns AlreadyVerified, stores no token
\* and sends none.
C21_VerifiedNeverReissued ==
    [][ \A purpose \in { "registration", "login" } :
          (Verified /\ SendVerification(E_ARMY, purpose))
             => /\ last'.result = "AlreadyVerified"
                /\ users' = users
                /\ nextToken' = nextToken ]_vars


\* C22: the expiry of an unconsumed verification token makes only that token
\* unusable: the account whose token has expired stays in the repository,
\* where a later resend can give it a new token.
C22_ExpiredTokenKeepsAccount ==
    [][ \A u \in Ids :
          ( /\ ~users[u].emailVerified
            /\ users[u].emailVerificationExpiry # Null
            /\ users[u].emailVerificationExpiry <= now )
             => u \in DOMAIN users' ]_vars


\* a credential the middleware has examined and found validly signed and
\* unexpired
ExaminedValid ==
    /\ last.route = "protected"
    /\ last.result \notin { "NoToken", "InvalidToken", "TokenExpired" }

\* C23: whether a validly signed, unexpired session credential is accepted
\* does not depend on the account repository: presented again, the credential
\* gets the answer it got before.
C23_AcceptanceIgnoresRepository ==
    [][ (ExaminedValid /\ verifyToken(Bearer(last.session, ServerKey)))
           => last'.result = last.result ]_vars


\* C24: a failed login, an email verification and the issue of a session each
\* log a security event before the response is returned; in particular no
\* response carries a session without an event logged for it.
C24_TransitionsAudited ==
    (last.result \in { "InvalidCredentials", "Verified", "MfaVerified" } \/ SessionIssued)
        => last.event # ""


\* C25: a login that names a role without a role configuration is aborted
\* with a server error; it is not looked up and answered as invalid
\* credentials.
C25_UnknownRoleIsServerError ==
    (last.route = "login" /\ last.request.role \notin RoleKeys)
        => last.status = 500 /\ last.result # "InvalidCredentials"


\* a registration whose fields other than the role pass validateRegistration
ValidApartFromRole(q) ==
    /\ isEmail(q.email)
    /\ Len(trim(q.serviceId)) >= MinServiceId
    /\ PasswordStrong(q.password)

\* C26: every role that has a role configuration is a valid role for
\* registration: a registration that is valid in its other fields and names
\* such a role is not refused by the validation.
C26_PolicyRolesRegister ==
    [][ \A q \in RegisterRequests :
          (q.role \in RoleKeys /\ ValidApartFromRole(q) /\ Register(q))
             => last'.result # "ValidationErrors" ]_vars


\* the password step with a password typed and credentials that pass the
\* checks of their role
PasswordSubmittable ==
    /\ LoginView = "Password"
    /\ form.password # << >>
    /\ form.userType # ""
    /\ CredentialsChecked(form, "Credential Validation Failed",
                          "Email Validation Failed").toast = ""

\* C27: login does not validate the password against the password rules
\* again: every non-empty password goes to the comparison, and one that does
\* not match counts as a failed attempt whether or not it satisfies the rules.
C27_WrongPasswordAlwaysCounts ==
    [][ (PasswordSubmittable /\ handleLogin(FALSE))
           => form'.failedAttempts = form.failedAttempts + 1 ]_vars


\* validatePassword: the baseline rule and, for a role that has one, the
\* password policy of the role
validatePassword(role, password) ==
    /\ PasswordPolicyOk[password]
    /\ HasPasswordPolicy(role) => RolePasswordOk[password]

\* C28: a password is accepted for a role exactly when it satisfies the
\* baseline rule and the role's own rule: a registration that is valid in its
\* other fields, for an address not yet registered, is refused exactly when
\* its password is not accepted for its role.
C28_StricterRuleGoverns ==
    [][ \A q \in AccountRegisterRequests :
          (Ids = {} /\ Register(q)) =>
             (last'.result = "ValidationErrors") = ~validatePassword(q.role, q.password) ]_vars


\* C29: normalising a credential is idempotent for every role and every
\* input: what the registration wizard has stored is the normal form of
\* itself under the role chosen, and so is the normal form of every typed
\* value under every role and under none.
C29_NormalizeIdempotent ==
    /\ reg.serviceId = NormalizedId[reg.userType][reg.serviceId]
    /\ \A r \in RolesOrNone, v \in TypedIds :
         NormalizedId[r][NormalizedId[r][v]] = NormalizedId[r][v]

\* the service step has normalised again a credential that typing had
\* changed: spaces removed, letters raised
C29_Witness ==
    /\ reg.userType = "personnel"
    /\ reg.serviceId = ID_UPPER
    /\ reg.toast = "Service Details Saved"


\* the outcomes of the email checks of a role on a candidate address
NotWhitelisted(role, candidate) ==
    HasEmailWhitelist(role) /\ candidate \notin auditorWhitelist

FailsPattern(role, candidate) ==
    HasEmailPattern(role) /\ ~EmailMatches[role][candidate]

\* C30: the email checks run in the order empty, roster, pattern. In the
\* registration wizard the messages shown for the role and address entered
\* are: none for an empty address; the roster message for an address that is
\* not on the role's roster, whether or not it matches the pattern; for an
\* address that fails the pattern, the role's blocking message when the role
\* requires a defence address and no blocking message otherwise; a warning
\* only for a family address outside the defence domains. A blocking message
\* keeps the wizard from its security step; a warning does not. The login
\* wizard's check gives the roster message and the blocking message in the
\* same cases.
C30_EmailChecksInOrder ==
    /\ reg.currentStep = 3 => reg.emailError = ""
    /\ LET role == reg.userType
           candidate == EmailCandidate[reg.email]
       IN  role # "" =>
             /\ candidate = << >> => reg.emailError = "" /\ reg.emailWarning = ""
             /\ (candidate # << >> /\ NotWhitelisted(role, candidate))
                   => reg.emailError = "Email not listed in the approved roster."
             /\ (candidate # << >> /\ ~NotWhitelisted(role, candidate)
                                   /\ FailsPattern(role, candidate))
                   => IF requiresDefenceEmail(role)
                      THEN reg.emailError = emailErrorMessage(role) /\ reg.emailError # ""
                      ELSE reg.emailError = ""
             /\ (role = "family" /\ candidate # << >> /\ ~IsDefenceEmail[candidate])
                   => reg.emailError = "" /\ reg.emailWarning # ""
    /\ \A role \in WizardRoles, e \in TypedEmails :
         LET candidate == EmailCandidate[e]
         IN  /\ NotWhitelisted(role, candidate)
                  => validateEmailForRole(e, role) = "Email not listed in the approved roster."
             /\ (~NotWhitelisted(role, candidate) /\ FailsPattern(role, candidate))
                  => validateEmailForRole(e, role) = emailErrorMessage(role)
             /\ (~NotWhitelisted(role, candidate) /\ ~FailsPattern(role, candidate))
                  => validateEmailForRole(e, role) = ""

\* an auditor's address that is neither on the roster nor of the pattern is
\* answered with the roster message
C30_Witness ==
    /\ reg.userType = "auditor"
    /\ EmailCandidate[reg.email] # << >>
    /\ NotWhitelisted("auditor", EmailCandidate[reg.email])
    /\ FailsPattern("auditor", EmailCandidate[reg.email])
    /\ reg.emailError = "Email not listed in the approved roster."

\* C31: once verifyOtp has accepted the code of a challenge, that challenge is
\* consumed: the next verifyOtp against it, no code having been sent since,
\* returns false with the expired message.
C31_VerifiedChallengeConsumed ==
    [][ (hook.accepted # "none" /\ verifyOtp) =>
           /\ hook'.returned = "false"
           /\ hook'.otpError = "OTP has expired. Please request a new one." ]_vars

\* C32: a request to send a code made while the countdown of the code last
\* sent is still running is rejected: the code sent, what was typed and the
\* countdown are left as they are.
C32_SendDuringCooldownRejected ==
    [][ \A e \in { << >>, E_ARMY } :
          (hook.otpCountdown > 0 /\ sendOtp(e)) =>
             /\ hook'.returned = "false"
             /\ hook'.otpCountdown = hook.otpCountdown
             /\ hook'.otpCode = hook.otpCode
             /\ hook'.accepted = hook.accepted
             /\ elapsed' = elapsed ]_vars

\* the credential and the address LoginForm holds pass the checks of the role
\* selected
LoginIdentityValid ==
    /\ form.userType # ""
    /\ showServiceIdField(form.userType) =>
          /\ IdMatches[form.userType][form.serviceId]
          /\ form.serviceIdError = ""
    /\ requiresEmailEntry(form.userType) =>
          /\ validateEmailForRole(form.email, form.userType) = ""
          /\ form.emailError = ""

\* the credential RegisterForm holds passes the checks of the role selected,
\* and the address has no blocking error under that role
RegisterIdentityValid ==
    /\ reg.userType # ""
    /\ RegisterForm_validateServiceId(reg.serviceId, reg.userType) = ""
    /\ reg.serviceIdError = ""
    /\ reg.emailError = ""
    /\ evaluateEmailAgainstRole(reg.userType, reg.email).emailError = ""

\* C33: a role change in either wizard clears the credential entered and its
\* error (LoginForm: the address and its error too; RegisterForm: the address
\* is judged anew under the new role), and a wizard that is past its
\* credentials or service step holds an identity that is valid for the role
\* selected.
C33_IdentityBelongsToRole ==
    [][ /\ \A r \in LoginFormRoles :
             handleRoleChange(r) =>
                /\ form'.serviceId = << >> /\ form'.serviceIdError = ""
                /\ form'.email = << >> /\ form'.emailError = ""
        /\ \A r \in WizardRoles :
             RegisterForm_handleRoleChange(r) =>
                /\ reg'.serviceId = << >> /\ reg'.serviceIdError = ""
                /\ reg'.emailError = evaluateEmailAgainstRole(r, reg.email).emailError
        /\ (mounted' = "LoginForm" /\ form'.currentStep >= 2) => LoginIdentityValid'
        /\ (mounted' = "RegisterForm" /\ reg'.currentStep >= 3) => RegisterIdentityValid'
      ]_vars

\* the login wizard is at its password step again, under a role other than
\* the one its first password check was made for
C33_Witness ==
    /\ mounted = "LoginForm"
    /\ form.currentStep = 2
    /\ form.toast = "Credentials Recorded"
    /\ failedChecks # << >>
    /\ failedChecks[1].role # form.userType
    /\ form.serviceId # << >>

\* C34: under a role whose configuration has an enforced MFA method, the
\* method selected is the enforced one wherever a code can be verified (the
\* MFA step of LoginForm) or the registration submitted (the security step of
\* RegisterForm), whatever roles and methods were selected before.
C34_EnforcedMethodSelected ==
    /\ (mounted = "LoginForm" /\ LoginView = "MFA"
        /\ enforcedMfaMethod(form.userType) # "") =>
          form.mfaMethod = enforcedMfaMethod(form.userType)
    /\ (mounted = "RegisterForm" /\ RegisterView = "Security"
        /\ enforcedMfaMethod(reg.userType) # "") =>
          reg.mfaMethod = enforcedMfaMethod(reg.userType)

\* an administrator is at the MFA step with a six-digit code typed, in a form
\* whose first password check was made for another role
C34_Witness ==
    /\ mounted = "LoginForm"
    /\ LoginView = "MFA"
    /\ form.userType = "admin"
    /\ form.mfaMethod = "totp"
    /\ Len(form.otpCode) = OTP_LENGTH
    /\ failedChecks # << >>
    /\ failedChecks[1].role = "personnel"

\* C35: the failed-attempt counter of LoginForm stays within 0..3, the form
\* is locked exactly when the counter has reached 3, and a failed attempt
\* below the threshold states 3 minus the counter, at least 1, as the
\* attempts remaining.
C35_CounterAndLock ==
    /\ form.failedAttempts \in 0..3
    /\ form.isLocked <=> form.failedAttempts = 3
    /\ (LoginView = "Locked") <=> form.failedAttempts = 3
    /\ form.toast = "Login Failed" =>
          /\ form.remaining = 3 - form.failedAttempts
          /\ form.remaining >= 1
    /\ form.toast = "Account Locked" => form.isLocked

\* the second failed attempt has just been reported
C35_Witness ==
    /\ mounted = "LoginForm"
    /\ form.failedAttempts = 2
    /\ Len(failedChecks) = 2
    /\ form.toast = "Login Failed"
    /\ form.remaining = 1
    /\ ~form.isLocked

\* C36: of the send-verification and resend-verification requests for one
\* account that are in flight together at most one issues a token: no
\* handler issues a token within the throttle interval of its route after
\* the token issued before it.
C36_OneConcurrentIssuer ==
    [][ \A p \in Procs :
          (VerificationSave(p) /\ last'.result = "Sent") =>
             ~Throttled(doc[p], RateLimit(pc[p])) ]_vars

\* the tokens a verify-email request would find on the account now
Consumable(u) == { t \in Tokens : u \in FindByToken(t) }

\* a token issued before the latest one (one address registers once in
\* SpecIssue, so every token issued is of the same account)
Superseded(t) == t \in 1..(nextToken - 2)

\* C37: an account holds at most one token value that a verify-email request
\* can consume, and a verify-email request that arrives with an older token
\* after a new one was issued returns InvalidOrExpired and changes nothing.
C37_ReissueInvalidatesOlderToken ==
    /\ [](\A u \in Ids : Cardinality(Consumable(u)) <= 1)
    /\ [][ \A p \in Procs, t \in Tokens :
             (Superseded(t) /\ VerifyEmailFind(p, t)) =>
                (/\ last'.result = "InvalidOrExpired"
                 /\ last'.token = t
                 /\ pc'[p] = "idle"
                 /\ users' = users) ]_vars

\* the first token, neither consumed nor past its expiry, was refused while
\* the account holds a newer one
C37_Witness ==
    /\ last.route = "verify-email"
    /\ last.result = "InvalidOrExpired"
    /\ last.token = 1
    /\ ~Consumed(1) /\ ~Expired(1)
    /\ now < EmailVerificationExpiry
    /\ \E u \in Ids : /\ users[u].emailVerificationToken \in Tokens
                      /\ users[u].emailVerificationToken > 1
                      /\ Consumable(u) # {}

\* C38: the lookup of login is unambiguous: no two accounts have the same
\* role and the same credential id.
C38_CredentialIdUniquePerRole ==
    \A u, v \in Ids :
        (/\ users[u].role = users[v].role
         /\ users[u].credentialId = users[v].credentialId) => u = v

\* the seconds left of the code last sent
Remaining ==
    IF elapsed = Null \/ elapsed >= OTP_EXPIRY_SECONDS THEN 0
    ELSE OTP_EXPIRY_SECONDS - elapsed

\* C39: in the hook and in LoginForm the countdown is within 0..60, at most
\* one interval is set, a second takes exactly one off a running countdown,
\* and while a code is sent the countdown is 60 less the seconds since it was
\* sent last: it reaches 0 after 60 seconds and stays 0 with no interval set.
C39_SingleCountdown ==
    /\ [](/\ hook.otpCountdown \in 0..OTP_EXPIRY_SECONDS
          /\ form.otpCountdown \in 0..OTP_EXPIRY_SECONDS
          /\ hook.intervals = (IF hook.otpCountdown > 0 THEN 1 ELSE 0)
          /\ form.intervals = (IF form.otpCountdown > 0 THEN 1 ELSE 0)
          /\ hook.timerRef <=> hook.intervals = 1
          /\ form.otpTimerRef <=> form.intervals = 1
          /\ hook.otpCountdown = (IF hook.otpSent THEN Remaining ELSE 0)
          /\ form.otpCountdown = (IF form.otpSent THEN Remaining ELSE 0))
    /\ [][ Second =>
             /\ hook'.otpCountdown = (IF hook.otpCountdown > 0 THEN hook.otpCountdown - 1 ELSE 0)
             /\ form'.otpCountdown = (IF form.otpCountdown > 0 THEN form.otpCountdown - 1 ELSE 0)
         ]_vars

\* a second after the countdown of the hook has run out: it is 0 and no
\* interval is set
C39_Witness ==
    /\ mounted = "useEmailOtp"
    /\ hook.otpSent
    /\ elapsed = OTP_EXPIRY_SECONDS + 1
    /\ hook.otpCountdown = 0
    /\ hook.intervals = 0
    /\ ~hook.timerRef

\* C40: a login whose password does not match the account it resolves is
\* answered 401 InvalidCredentials and nothing else, whatever the account's
\* isActivated and emailVerified are; NotActivated and EmailNotVerified are
\* answered only to a login whose password matches.
C40_StatusOnlyAfterPassword ==
    LoginServed =>
        /\ \A u \in Resolved :
             ~PasswordMatches(u) => Response(last) = InvalidCredentialsResponse
        /\ last.result \in { "NotActivated", "EmailNotVerified" } =>
             \E u \in Resolved : PasswordMatches(u)

\* a login with a wrong password for an account that is activated and whose
\* email is verified was answered InvalidCredentials
C40_Witness ==
    /\ LoginServed
    /\ last.result = "InvalidCredentials"
    /\ \E u \in Resolved : /\ ~PasswordMatches(u)
                           /\ users[u].isActivated
                           /\ users[u].emailVerified

====
